---- MODULE Spec2Model ----
(***************************************************************************)
(* Model of the StepGallery pagination engine (PaginationEngine) together  *)
(* with the collaborators it drives: CheckpointManager over                *)
(* chrome.storage.local, ContentHasher, AdaptiveTimer and MemoryMonitor,   *)
(* and the content-script command handlers that call it.                   *)
(*                                                                         *)
(* The content script is single threaded: code between two awaits runs     *)
(* atomically.  Every action below is one such synchronous segment: a      *)
(* command handler up to its first await, or the continuation of one       *)
(* start() invocation from the await it is suspended on up to the next     *)
(* await.  A storage request takes effect when it is issued (the storage   *)
(* area serves requests in issue order); the await on it completes in a    *)
(* later step.                                                             *)
(*                                                                         *)
(* The background coordinator is a second single-threaded context: the     *)
(* StateManager with its named locks, the MessageRouter handlers that      *)
(* change the shared state, and the DownloadManager.  Its actions are the  *)
(* synchronous segments of those handlers; a chain of awaits on promises   *)
(* that are already resolved runs before any other message or timer and is *)
(* part of the segment that started it.                                    *)
(*                                                                         *)
(* The MessageRouter's dispatch of one message to its handler, the         *)
(* requests with a timeout that one context sends to another, the start-up *)
(* of the service worker, and the ContentHasher, CheckpointManager,         *)
(* AdaptiveTimer and MemoryMonitor called on their own each have a         *)
(* specification of their own over the same variables.                     *)
(***************************************************************************)
EXTENDS Integers, Sequences, FiniteSets, TLC

(* ---------------- bounds and scaled configuration ---------------------- *)

\* Concurrent start() invocations that can be suspended at the same time.
MaxTasks == 2
\* Cap on the length of collectedImages (the extractor returns nothing more beyond it).
MaxImages == 2
\* options.maxPages of the constructor (PAGINATION_CONFIG.MAX_PAGES = 50 by default), scaled.
maxPages == 3
\* PAGINATION_CONFIG.MAX_ATTEMPTS (50 in the source), scaled.
MAX_ATTEMPTS == 3
\* CheckpointManager.checkpointInterval (5 in the source), scaled.
checkpointInterval == 2
\* ContentHasher.lookbackSize (DUPLICATE_CHECK_LOOKBACK = 10 in the source), scaled.
lookbackSize == 2
\* AdaptiveTimer.historySize (5 in the source), scaled.
historySize == 2
\* How many check intervals of time the memory monitor is followed for.
MaxTicks == 14

\* Calls of addHash and isRecentDuplicate between two clear() calls that are followed.
MaxHashCalls == 4
\* withLock() invocations that can be suspended at the same time.
MaxCallers == 2
\* STATE_CONFIG.LOCK_TIMEOUT, the default timeout of acquireLock, in ms.
LOCK_TIMEOUT == 5000
\* Response channels of chrome.runtime.onMessage that are followed at the same time.
MaxRequests == 2
\* Requests to another context that are followed at the same time.
MaxOutbound == 2
\* TAB_MESSAGE_TIMEOUT of the message router (background to tab), in ms.
TAB_MESSAGE_TIMEOUT == 5000
\* MESSAGE_TIMEOUT of the dashboard (UI to background), in ms.
MESSAGE_TIMEOUT == 5000
\* TAB_MESSAGE_TIMEOUT of the dashboard (UI to tab), in ms.
UI_TAB_MESSAGE_TIMEOUT == 3000
\* PAGINATION_CONFIG.ADAPTIVE_TIMING_MIN, _MAX and _DEFAULT, in ms.
ADAPTIVE_TIMING_MIN == 1000
ADAPTIVE_TIMING_MAX == 5000
ADAPTIVE_TIMING_DEFAULT == 2000
\* MemoryMonitor.checkInterval and MemoryMonitor.warningCooldown, in ms.
checkInterval == 5000
warningCooldown == 30000
\* 24 * 60 * 60 * 1000: the age in ms beyond which loadCheckpoint drops a record.
CHECKPOINT_TTL == 86400000
\* Download items that downloadImages() creates in one behaviour.
MaxItems == 3
\* settings.concurrentDownloads (3 by default), scaled.
concurrentDownloads == 2
\* DOWNLOAD_CONFIG.RETRY_ATTEMPTS.
RETRY_ATTEMPTS == 3

Tasks == 1..MaxTasks
Callers == 1..MaxCallers
Items == 1..MaxItems
Requests == 1..MaxRequests
Outbound == 1..MaxOutbound

(* ---------------- input domains ---------------------------------------- *)

Methods == {"auto", "nextButton"}
Hashes == {"A", "B"}
\* Post-action fingerprints of a site with three distinguishable pages.
Fingerprints == {"A", "B", "C"}
\* Results of one extractImagesWithLazyLoading() call.
Extracted == {<<>>, <<"a">>}
\* Wall-clock duration of one iteration, in ms.
Durations == {1000}
\* memoryMonitor.checkMemory(): null (no performance.memory), ratio below 0.8, ratio at or above 0.8.
MemoryReadings == {"none", "low", "high"}
\* The 'settings' record of chrome.storage.local as handlePaginationStart reads it
\* (a field that is absent is left to the ?? default).
StoredSettings ==
  { [enableMemoryMonitoring |-> FALSE],
    [enableMemoryMonitoring |-> TRUE] }

VARIABLES
  isActive,         \* PaginationEngine.isActive
  currentState,     \* PaginationEngine.currentState
  currentPage,      \* PaginationEngine.currentPage
  attempts,         \* PaginationEngine.attempts
  method,           \* PaginationEngine.method
  collectedImages,  \* PaginationEngine.collectedImages
  settings,         \* PaginationEngine.settings
  imageExtractor,   \* PaginationEngine.imageExtractor is set
  hashHistory,      \* ContentHasher.hashHistory
  responseTimes,    \* AdaptiveTimer.responseTimes
  isMonitoring,     \* MemoryMonitor.isMonitoring (its interval timer is armed)
  storage,          \* chrome.storage.local['pagination_checkpoint']: <<>> or <<record>>
  storageUp,        \* chrome.storage.local requests succeed (no action makes them fail yet)
  task,             \* the start() invocations: where each one is suspended
  log,              \* toasts and warnings emitted by the last step
  extractCalls,     \* extractImagesFromCurrentPage() calls since start() last took effect
  fingerprints      \* post-action fingerprints computed since start() last took effect

engineVars == <<isActive, currentState, currentPage, attempts, method, collectedImages,
                settings, imageExtractor, hashHistory, responseTimes, isMonitoring,
                extractCalls, fingerprints>>
vars == <<isActive, currentState, currentPage, attempts, method, collectedImages,
          settings, imageExtractor, hashHistory, responseTimes, isMonitoring,
          storage, storageUp, task, log, extractCalls, fingerprints>>

VARIABLES
  stateImages,      \* StateManager.collectedImages: the fileUrl of each entry, in order
  stateSettings,    \* StateManager.settings
  locks,            \* StateManager.locks: lock name -> the call that set it (the code
                    \* stores the time of acquisition; nothing reads the value)
  call,             \* the withLock() invocations: where each one is suspended
  mutations,        \* changes of the shared state made by the last step
  response          \* sendResponse() payloads and rejections of the last step

stateMgrVars == <<stateImages, stateSettings, locks, call, mutations, response>>

VARIABLES
  downloadQueue,    \* DownloadManager.downloadQueue: ids of the queued items
  isDownloading,    \* DownloadManager.isDownloading
  activeDownloads,  \* DownloadManager.activeDownloads
  downloadedCount,  \* DownloadManager.downloadedCount
  failedCount,      \* DownloadManager.failedCount
  batchCounter,     \* DownloadManager.batchCounter
  pauseResolver,    \* DownloadManager.pauseResolver: <<>> or <<item whose gate set it>>
  retries,          \* item.retries of every item
  itemAt,           \* the downloadItem(item) invocations: where each one is suspended
  retryTimers,      \* items held by a pending retry setTimeout
  created,          \* items that downloadImages() has created so far
  sent,             \* messages the DownloadManager has sent in the last step
  halted            \* history: a batch confirmation has been declined and
                    \* downloadImages() has not been called since

downloadVars == <<downloadQueue, isDownloading, activeDownloads, downloadedCount,
                  failedCount, batchCounter, pauseResolver, retries, itemAt, retryTimers,
                  created, sent, halted>>

VARIABLES
  requests,         \* the messages delivered to chrome.runtime.onMessage: for each
                    \* response channel the message, where its handler is, and the
                    \* sendResponse() calls made on it
  outbound          \* the requests sent to another context: for each one its promise,
                    \* its timeout timer and the callback of the chrome API

routerVars == <<requests, outbound>>

VARIABLES
  timer,            \* an AdaptiveTimer as its constructor left it: minDelay, maxDelay,
                    \* defaultDelay, multiplier
  optimalDelay      \* what the last getOptimalDelay() of a direct caller returned

timerVars == <<timer, optimalDelay>>

VARIABLES
  now,              \* Date.now() as the MemoryMonitor reads it, in ms
  lastWarning,      \* MemoryMonitor.lastWarning
  warnings          \* the times at which onThresholdExceeded was called

monitorVars == <<now, lastWarning, warnings>>

VARIABLES
  entry,            \* the script the service worker runs: "background.js" of the
                    \* repository root or "background-main.js", the entry of the build
  isInitialized,    \* isInitialized of that script
  pendingGet        \* what the chrome.storage.local.get of a StateManager.initialize()
                    \* that is still awaiting will resolve with

workerVars == <<entry, isInitialized, pendingGet>>

\* The state the steps of the content script's engine leave alone: the background
\* coordinator, the options and the last answer of the timer, and the warnings of
\* the memory monitor (handleMemoryWarning only sends a toast and a message).
background == <<stateMgrVars, downloadVars, routerVars, timerVars, monitorVars, workerVars>>

(* ---------------- the engine as a record -------------------------------- *)

\* The fields a synchronous segment reads and writes, with an empty output.
Cur ==
  [ isActive |-> isActive, currentState |-> currentState, currentPage |-> currentPage,
    attempts |-> attempts, method |-> method, collectedImages |-> collectedImages,
    settings |-> settings, hashHistory |-> hashHistory, responseTimes |-> responseTimes,
    isMonitoring |-> isMonitoring, storage |-> storage, log |-> <<>>,
    extractCalls |-> extractCalls, fingerprints |-> fingerprints ]

\* Writes the fields of e back.
Commit(e) ==
  /\ isActive' = e.isActive
  /\ currentState' = e.currentState
  /\ currentPage' = e.currentPage
  /\ attempts' = e.attempts
  /\ method' = e.method
  /\ collectedImages' = e.collectedImages
  /\ settings' = e.settings
  /\ hashHistory' = e.hashHistory
  /\ responseTimes' = e.responseTimes
  /\ isMonitoring' = e.isMonitoring
  /\ storage' = e.storage
  /\ log' = e.log
  /\ extractCalls' = e.extractCalls
  /\ fingerprints' = e.fingerprints

showToast(e, m) == [e EXCEPT !.log = Append(@, m)]

IdleTask == [pc |-> "idle", arg |-> "auto", loaded |-> <<>>]

DefaultSettings ==
  [ paginationDelay |-> 2, scrollDelay |-> 500,
    enableAdaptiveTiming |-> TRUE, enableMemoryMonitoring |-> TRUE ]

\* updateSettings: every field is s.field ?? this.settings.field.
updateSettings(cur, s) ==
  [ f \in DOMAIN cur |-> IF f \in DOMAIN s THEN s[f] ELSE cur[f] ]

(* ---------------- CheckpointManager ------------------------------------- *)

\* saveCheckpoint(data): the record written under the storage key; a failed write
\* leaves the slot as it was (the method returns false, nothing is thrown).
CheckpointRecord(e) ==
  [ currentPage |-> e.currentPage, collectedImages |-> e.collectedImages,
    method |-> e.method, settings |-> e.settings, totalPages |-> maxPages,
    state |-> e.currentState, version |-> "1.0", expired |-> FALSE ]

\* saveCheckpoint that writes although the storage rejects.
saveCheckpoint_WritesAnyway(e) == [e EXCEPT !.storage = <<CheckpointRecord(e)>>]

saveCheckpoint(e) ==
  IF storageUp THEN [e EXCEPT !.storage = <<CheckpointRecord(e)>>] ELSE e

\* clearCheckpoint(): removes the record; a failed remove leaves it (returns false).
clearCheckpoint(e) ==
  IF storageUp THEN [e EXCEPT !.storage = <<>>] ELSE e

shouldCheckpoint(page) == page % checkpointInterval = 0

\* loadCheckpoint() after the read: the record is usable.
ValidCheckpoint(loaded) ==
  /\ loaded # <<>>
  /\ loaded[1].version = "1.0"
  /\ ~loaded[1].expired

(* ---------------- ContentHasher ------------------------------------------ *)

Includes(seq, x) == \E i \in 1..Len(seq) : seq[i] = x

\* isDuplicate() that compares with the most recent fingerprint only.
isDuplicate_LastOnly(history, hash) == history # <<>> /\ history[Len(history)] = hash

isDuplicate(history, hash) == Includes(history, hash)

\* addHash without the shift() of the oldest entry.
addHash_NoEvict(history, hash) ==
  IF Includes(history, hash) THEN history ELSE Append(history, hash)

addHash(history, hash) ==
  IF Includes(history, hash) THEN history
  ELSE LET pushed == Append(history, hash)
       IN IF Len(pushed) > lookbackSize THEN Tail(pushed) ELSE pushed

\* isRecentDuplicate(content): the history it leaves for the hash of the content; it
\* returns isDuplicate(history, hash).
isRecentDuplicate(history, hash) ==
  LET duplicate == Includes(history, hash)
      pushed == Append(history, hash)
  IN IF duplicate THEN history
     ELSE IF Len(pushed) > lookbackSize THEN Tail(pushed) ELSE pushed

(* ---------------- AdaptiveTimer ------------------------------------------ *)

\* Math.round(n / d) for d > 0: the nearest integer, a half going up.
Round(n, d) == (2 * n + d) \div (2 * d)

\* An option that is absent, or 0, is replaced by the default (`options.x || default`).
OrDefault(option, default) == IF option # 0 THEN option ELSE default

\* new AdaptiveTimer(options); the multiplier 1.5 is kept as the fraction 3/2.
AdaptiveTimer(options) ==
  [ minDelay     |-> OrDefault(options.minDelay, 1000),
    maxDelay     |-> OrDefault(options.maxDelay, 5000),
    defaultDelay |-> OrDefault(options.defaultDelay, 2000),
    multiplier   |-> <<3, 2>> ]

\* The timer of the PaginationEngine, built from PAGINATION_CONFIG.
AdaptiveTimerInit ==
  /\ timer = AdaptiveTimer([minDelay |-> ADAPTIVE_TIMING_MIN, maxDelay |-> ADAPTIVE_TIMING_MAX,
                            defaultDelay |-> ADAPTIVE_TIMING_DEFAULT])
  /\ optimalDelay = <<>>

recordResponseTime(times, duration) ==
  IF duration < 0 THEN times
  ELSE LET pushed == Append(times, duration)
       IN IF Len(pushed) > historySize THEN Tail(pushed) ELSE pushed

RECURSIVE Sum(_)
Sum(times) == IF times = <<>> THEN 0 ELSE Head(times) + Sum(Tail(times))

\* getAverageResponseTime(): <<>> stands for null.
getAverageResponseTime(times) ==
  IF Len(times) = 0 THEN <<>> ELSE <<Round(Sum(times), Len(times))>>

Max(a, b) == IF a >= b THEN a ELSE b
Min(a, b) == IF a <= b THEN a ELSE b

getOptimalDelay_Unclamped(t, times) ==
  LET avgResponseTime == getAverageResponseTime(times)
  IN IF avgResponseTime = <<>> THEN t.defaultDelay
     ELSE Round(avgResponseTime[1] * t.multiplier[1], t.multiplier[2])

getOptimalDelay(t, times) ==
  LET avgResponseTime == getAverageResponseTime(times)
  IN IF avgResponseTime = <<>> THEN t.defaultDelay
     ELSE LET calculatedDelay == Round(avgResponseTime[1] * t.multiplier[1], t.multiplier[2])
          IN Max(t.minDelay, Min(t.maxDelay, calculatedDelay))

(* ---------------- MemoryMonitor ------------------------------------------- *)

\* new MemoryMonitor(): no warning yet; the clock shows some time of the present.
MemoryMonitorInit ==
  /\ now = 100000
  /\ lastWarning = 0
  /\ warnings = <<>>

checkMemory_CooldownInclusive(m, reading, t) ==
  IF reading = "high" /\ t - m.lastWarning >= warningCooldown
  THEN [lastWarning |-> t, warnings |-> Append(m.warnings, t)]
  ELSE m

\* checkMemory() at time t: reading is "none" without performance.memory, "high" for
\* a usage ratio at or above the threshold, "low" below it.
checkMemory(m, reading, t) ==
  IF reading = "none" THEN m
  ELSE IF reading = "high"
       THEN IF t - m.lastWarning > warningCooldown
            THEN [lastWarning |-> t, warnings |-> Append(m.warnings, t)]
            ELSE m
       ELSE m

(* ---------------- PaginationEngine: synchronous pieces -------------------- *)

\* stop(): always ends in COMPLETE, whatever the state was.
stop(e) ==
  LET e1 == [e EXCEPT !.isActive = FALSE, !.currentState = "COMPLETE"]
      e2 == IF e1.settings.enableMemoryMonitoring
            THEN [e1 EXCEPT !.isMonitoring = FALSE] ELSE e1
      e3 == clearCheckpoint(e2)
  IN showToast(e3, "Pagination complete")

\* pause() without its state check.
pause_NoStateCheck(e) ==
  saveCheckpoint(showToast([e EXCEPT !.currentState = "PAUSED"], "Pagination paused"))

\* pause() up to its await on the checkpoint write.
pause(e) ==
  IF e.currentState # "RUNNING"
  THEN showToast(e, "Cannot pause: not running")
  ELSE saveCheckpoint(showToast([e EXCEPT !.currentState = "PAUSED"], "Pagination paused"))

\* The statements after the while loop of paginationLoop, then the finally of start().
LeaveLoop(e) ==
  LET e1 == IF e.attempts >= MAX_ATTEMPTS THEN showToast(e, "Max attempts reached") ELSE e
  IN [e |-> stop(e1), pc |-> "idle"]

\* The catch and the finally of start().
Throw(e) ==
  [e |-> stop([showToast(e, "Pagination error") EXCEPT !.currentState = "ERROR"]),
   pc |-> "idle"]

\* A loop that tests PAUSED before its while condition and waits for a resume.
LoopHead_WaitsWhilePaused(e, mem) ==
  IF e.currentState = "PAUSED"
  THEN [e |-> e, pc |-> "waitForResume"]
  ELSE IF ~( /\ e.isActive
             /\ e.currentState = "RUNNING"
             /\ e.attempts < MAX_ATTEMPTS
             /\ e.currentPage <= maxPages )
  THEN LeaveLoop(e)
  ELSE IF e.settings.enableMemoryMonitoring /\ mem = "high"
  THEN [e |-> pause(showToast(e, "Memory usage high")), pc |-> "memWait"]
  ELSE [e |-> e, pc |-> "beforeHash"]

\* One evaluation of the while condition of paginationLoop and the statements up to
\* the first await of the iteration; mem is what checkMemory() reports.
LoopHead(e, mem) ==
  IF ~( /\ e.isActive
        /\ e.currentState = "RUNNING"
        /\ e.attempts < MAX_ATTEMPTS
        /\ e.currentPage <= maxPages )
  THEN LeaveLoop(e)
  ELSE IF e.currentState = "PAUSED"
  THEN [e |-> e, pc |-> "waitForResume"]
  ELSE IF e.currentState = "CANCELLED"
  THEN LeaveLoop(showToast(e, "Pagination cancelled"))
  ELSE IF e.settings.enableMemoryMonitoring /\ mem = "high"
  THEN [e |-> pause(showToast(e, "Memory usage high")), pc |-> "memWait"]
  ELSE [e |-> e, pc |-> "beforeHash"]

\* start() that keeps the counters and histories of the previous run.
StartBody_NoReset(e, loaded, arg, mem) ==
  LET e1 == IF loaded # <<>>
            THEN [showToast(e, "Resume from page") EXCEPT
                    !.currentPage = loaded[1].currentPage,
                    !.collectedImages = loaded[1].collectedImages,
                    !.method = loaded[1].method,
                    !.settings = updateSettings(e.settings, loaded[1].settings)]
            ELSE [e EXCEPT !.method = arg, !.currentPage = 1, !.collectedImages = <<>>]
      e2 == [e1 EXCEPT !.isActive = TRUE, !.currentState = "RUNNING", !.extractCalls = 0, !.fingerprints = <<>>]
      e3 == IF e2.settings.enableMemoryMonitoring
            THEN [e2 EXCEPT !.isMonitoring = TRUE] ELSE e2
  IN LoopHead(showToast(e3, "Starting pagination"), mem)

\* start() from the result of loadCheckpoint() to the first await of the loop.
StartBody(e, loaded, arg, mem) ==
  LET e1 == IF loaded # <<>>
            THEN [showToast(e, "Resume from page") EXCEPT
                    !.currentPage = loaded[1].currentPage,
                    !.collectedImages = loaded[1].collectedImages,
                    !.method = loaded[1].method,
                    !.settings = updateSettings(e.settings, loaded[1].settings)]
            ELSE [e EXCEPT !.method = arg, !.currentPage = 1, !.collectedImages = <<>>]
      e2 == [e1 EXCEPT !.isActive = TRUE, !.currentState = "RUNNING", !.attempts = 0,
                       !.hashHistory = <<>>, !.responseTimes = <<>>, !.extractCalls = 0, !.fingerprints = <<>>]
      e3 == IF e2.settings.enableMemoryMonitoring
            THEN [e2 EXCEPT !.isMonitoring = TRUE] ELSE e2
  IN LoopHead(showToast(e3, "Starting pagination"), mem)

\* The end of an iteration without the page increment.
Advance_NoIncrement(e) == e

\* The end of an iteration after the optional checkpoint: advance and wait.
Advance(e) == [e EXCEPT !.currentPage = @ + 1]

\* Suspends or ends invocation t with the engine as r.e.  The method argument and the
\* record read from storage are dead once start() has passed loadCheckpoint().
Continue(t, r) ==
  /\ Commit(r.e)
  /\ task' = [task EXCEPT ![t] =
                IF r.pc = "loadClear" THEN [@ EXCEPT !.pc = r.pc, !.loaded = <<>>]
                ELSE [IdleTask EXCEPT !.pc = r.pc]]

(* ---------------- StateManager -------------------------------------------- *)

Urls == {"u1", "u2"}
\* message.images of a core/images-found message: the fileUrl of each image, for
\* batches of up to two images.
Batches == UNION {[1..n -> Urls] : n \in 0..2}
\* Date.now() - startTime at a wake-up of the acquireLock poll, in ms.
LockWaits == {50, 5050}
\* message.settings of a settings/update message.
SettingsUpdates == {[batchSize |-> 0], [batchSize |-> 2]}

\* The tunables of DEFAULT_SETTINGS that the background coordinator reads.
DefaultStateSettings == [batchSize |-> 0, downloadDelay |-> 0]

NoLocks == [n \in {} |-> 0]

IdleCall == [pc |-> "idle", op |-> "none", images |-> <<>>]

\* The state after the constructor of StateManager.
StateManagerInit ==
  /\ stateImages = <<>>
  /\ stateSettings = DefaultStateSettings
  /\ locks = NoLocks
  /\ call = [c \in Callers |-> IdleCall]
  /\ mutations = <<>>
  /\ response = <<>>

addImages_AppendsAll(existing, images) == existing \o images

\* addImages(images): the images whose fileUrl no existing entry has are appended.
addImages(existing, images) ==
  LET unique(img) == ~Includes(existing, img)
  IN existing \o SelectSeq(images, unique)

\* this.locks.set(lockName, ...) at the end of acquireLock.
setLock(held, name, c) ==
  [n \in DOMAIN held \cup {name} |-> IF n = name THEN c ELSE held[n]]

\* releaseLock(lockName): this.locks.delete(lockName).
releaseLock(held, name) == [n \in DOMAIN held \ {name} |-> held[n]]

\* { ...this.settings, ...newSettings }.
mergeSettings(cur, s) ==
  [f \in DOMAIN cur \cup DOMAIN s |-> IF f \in DOMAIN s THEN s[f] ELSE cur[f]]

FreeCalls == {c \in Callers : call[c].pc = "idle"}

\* handleImagesFound once acquireLock has set the lock for call c: the operation runs
\* addImages, the finally of withLock releases, and the handler responds.  None of
\* the awaits in between waits for a timer or a message.
Ingest(c, images) ==
  LET held == setLock(locks, "images", c)
      after == addImages(stateImages, images)
  IN /\ stateImages' = after
     /\ locks' = releaseLock(held, "images")
     /\ mutations' = <<[target |-> "images", by |-> c, locks |-> held, images |-> images]>>
     /\ response' = <<[to |-> c, success |-> TRUE, error |-> "",
                       added |-> Len(after) - Len(stateImages), total |-> Len(after)]>>

Failure(c, message) ==
  <<[to |-> c, success |-> FALSE, error |-> message, added |-> 0, total |-> 0]>>

\* handleImagesFound: withLock('images', ...) up to the first wait of acquireLock's
\* poll, or to the response when the lock is free.
ImagesFound(images) ==
  /\ FreeCalls # {}
  /\ LET c == CHOOSE x \in FreeCalls : \A y \in FreeCalls : x <= y
     IN IF "images" \in DOMAIN locks
        THEN /\ call' = [call EXCEPT ![c] =
                           [pc |-> "poll", op |-> "addImages", images |-> images]]
             /\ mutations' = <<>>
             /\ response' = <<>>
             /\ UNCHANGED <<stateImages, locks>>
        ELSE /\ Ingest(c, images)
             /\ UNCHANGED call
  /\ UNCHANGED <<stateSettings, downloadVars, routerVars, timerVars, monitorVars, workerVars, vars>>

\* withLock('images', operation) with an operation that awaits before it settles:
\* up to the first wait of the poll, or into the operation when the lock is free.
WithLock ==
  /\ FreeCalls # {}
  /\ LET c == CHOOSE x \in FreeCalls : \A y \in FreeCalls : x <= y
     IN IF "images" \in DOMAIN locks
        THEN /\ call' = [call EXCEPT ![c] = [IdleCall EXCEPT !.pc = "poll", !.op = "operation"]]
             /\ UNCHANGED locks
        ELSE /\ call' = [call EXCEPT ![c] = [IdleCall EXCEPT !.pc = "inOp", !.op = "operation"]]
             /\ locks' = setLock(locks, "images", c)
  /\ mutations' = <<>>
  /\ response' = <<>>
  /\ UNCHANGED <<stateImages, stateSettings, downloadVars, routerVars, timerVars, monitorVars, workerVars, vars>>

\* A wake-up of the 50 ms poll of acquireLock, elapsed ms after the call: the lock is
\* taken if it is free; else the call throws if the timeout has passed (and the
\* finally of withLock runs releaseLock), else it waits again.
PollWake(c, elapsed) ==
  /\ call[c].pc = "poll"
  /\ IF "images" \notin DOMAIN locks
     THEN IF call[c].op = "addImages"
          THEN /\ Ingest(c, call[c].images)
               /\ call' = [call EXCEPT ![c] = IdleCall]
          ELSE /\ locks' = setLock(locks, "images", c)
               /\ call' = [call EXCEPT ![c].pc = "inOp"]
               /\ mutations' = <<>>
               /\ response' = <<>>
               /\ UNCHANGED stateImages
     ELSE IF elapsed > LOCK_TIMEOUT
     THEN /\ locks' = releaseLock(locks, "images")
          /\ call' = [call EXCEPT ![c] = IdleCall]
          /\ mutations' = <<>>
          /\ response' = Failure(c, "Failed to acquire lock: images")
          /\ UNCHANGED stateImages
     ELSE /\ mutations' = <<>>
          /\ response' = <<>>
          /\ UNCHANGED <<stateImages, locks, call>>
  /\ UNCHANGED <<stateSettings, downloadVars, routerVars, timerVars, monitorVars, workerVars, vars>>

\* withLock whose finally does not run when the operation throws.
OpThrows_NoRelease(c) ==
  /\ call[c].pc = "inOp"
  /\ call' = [call EXCEPT ![c] = IdleCall]
  /\ mutations' = <<>>
  /\ response' = Failure(c, "operation failed")
  /\ UNCHANGED <<locks, stateImages, stateSettings, downloadVars, routerVars, timerVars, monitorVars, workerVars, vars>>

\* The operation of call c rejects: the finally of withLock runs releaseLock and the
\* error goes to the caller.
OpThrows(c) ==
  /\ call[c].pc = "inOp"
  /\ locks' = releaseLock(locks, "images")
  /\ call' = [call EXCEPT ![c] = IdleCall]
  /\ mutations' = <<>>
  /\ response' = Failure(c, "operation failed")
  /\ UNCHANGED <<stateImages, stateSettings, downloadVars, routerVars, timerVars, monitorVars, workerVars, vars>>

\* The operation of call c resolves: the finally of withLock runs releaseLock.
OpReturns(c) ==
  /\ call[c].pc = "inOp"
  /\ locks' = releaseLock(locks, "images")
  /\ call' = [call EXCEPT ![c] = IdleCall]
  /\ mutations' = <<>>
  /\ response' = <<[to |-> c, success |-> TRUE, error |-> "", added |-> 0, total |-> 0]>>
  /\ UNCHANGED <<stateImages, stateSettings, downloadVars, routerVars, timerVars, monitorVars, workerVars, vars>>

\* handleClearImages: this.state.clearImages(), outside any withLock call.
ClearImages ==
  /\ stateImages' = <<>>
  /\ mutations' = <<[target |-> "images", by |-> 0, locks |-> locks, images |-> <<>>]>>
  /\ response' = <<[to |-> 0, success |-> TRUE, error |-> "", added |-> 0, total |-> 0]>>
  /\ UNCHANGED <<stateSettings, locks, call, downloadVars, routerVars, timerVars, monitorVars, workerVars, vars>>

\* handleSettingsUpdate: this.state.updateSettings(message.settings), outside any
\* withLock call.
SettingsUpdate(s) ==
  /\ stateSettings' = mergeSettings(stateSettings, s)
  /\ mutations' = <<[target |-> "settings", by |-> 0, locks |-> locks, images |-> <<>>]>>
  /\ response' = <<[to |-> 0, success |-> TRUE, error |-> "", added |-> 0, total |-> 0]>>
  /\ UNCHANGED <<stateImages, locks, call, downloadVars, routerVars, timerVars, monitorVars, workerVars, vars>>

(* ---------------- the service worker's start-up ---------------------------- *)

Entries == {"background.js", "background-main.js"}

\* What chrome.storage.local holds under 'settings' and 'collectedImages' when the
\* worker starts: <<>> for a key that is absent, <<v>> for a key with the value v.
StoredStates ==
  { [settings |-> <<>>, collectedImages |-> <<>>],
    [settings |-> <<>>, collectedImages |-> << <<>> >>],
    [settings |-> <<[batchSize |-> 2]>>, collectedImages |-> << <<"u1">> >>] }

\* The worker built from background-main.js after its initialize() has completed.
WorkerInit ==
  /\ entry = "background-main.js"
  /\ isInitialized = TRUE
  /\ pendingGet = <<>>

\* The service worker starts: the entry script constructs the StateManager and calls
\* initialize(), which runs up to the await on chrome.storage.local.get; the get is
\* served before any write that follows it, with what the storage holds now.
WorkerStart(script, stored) ==
  /\ entry' = script
  /\ isInitialized' = FALSE
  /\ pendingGet' = <<stored>>
  /\ stateImages' = <<>>
  /\ stateSettings' = DefaultStateSettings
  /\ locks' = NoLocks
  /\ call' = [c \in Callers |-> IdleCall]
  /\ mutations' = <<>>
  /\ response' = <<>>
  /\ UNCHANGED <<downloadVars, routerVars, timerVars, monitorVars, vars>>

\* StateManager.initialize() after the get has resolved with stored: a key that is
\* present (an empty array too) replaces the field.
initialize(images, current, stored) ==
  [ collectedImages |-> IF stored.collectedImages # <<>>
                        THEN stored.collectedImages[1] ELSE images,
    settings |-> IF stored.settings # <<>>
                 THEN mergeSettings(DefaultStateSettings, stored.settings[1]) ELSE current ]

\* The get resolves: StateManager.initialize() assigns, and the entry script sets
\* isInitialized.
InitializeDone ==
  /\ pendingGet # <<>>
  /\ LET after == initialize(stateImages, stateSettings, pendingGet[1])
     IN /\ stateImages' = after.collectedImages
        /\ stateSettings' = after.settings
  /\ isInitialized' = TRUE
  /\ pendingGet' = <<>>
  /\ mutations' = <<>>
  /\ response' = <<>>
  /\ UNCHANGED <<entry, locks, call, downloadVars, routerVars, timerVars, monitorVars, vars>>

\* The get rejects: StateManager.initialize() catches and returns, and the entry
\* script sets isInitialized.
InitializeFails ==
  /\ pendingGet # <<>>
  /\ isInitialized' = TRUE
  /\ pendingGet' = <<>>
  /\ mutations' = <<>>
  /\ response' = <<>>
  /\ UNCHANGED <<entry, stateImages, stateSettings, locks, call, downloadVars, routerVars,
                 timerVars, monitorVars, vars>>

\* The chrome.runtime.onMessage listener of background-main.js answers 'Extension not
\* ready' until isInitialized is set; the one of background.js passes every message
\* to the router once the components are constructed.
NotReady == entry = "background-main.js" /\ ~isInitialized

Rejected ==
  /\ NotReady
  /\ mutations' = <<>>
  /\ response' = Failure(0, "Extension not ready - please reload")
  /\ UNCHANGED <<stateImages, stateSettings, locks, call, downloadVars, routerVars,
                 timerVars, monitorVars, workerVars, vars>>

\* A core/images-found message arrives at the listener.
ImagesFoundMessage(images) ==
  \/ Rejected
  \/ ~NotReady /\ ImagesFound(images)

\* A settings/update message arrives at the listener.
SettingsUpdateMessage(s) ==
  \/ Rejected
  \/ ~NotReady /\ SettingsUpdate(s)

(* ---------------- DownloadManager ------------------------------------------ *)

\* The state after the constructor of DownloadManager.
DownloadManagerInit ==
  /\ downloadQueue = <<>>
  /\ isDownloading = FALSE
  /\ activeDownloads = 0
  /\ downloadedCount = 0
  /\ failedCount = 0
  /\ batchCounter = 0
  /\ pauseResolver = <<>>
  /\ retries = [i \in Items |-> 0]
  /\ itemAt = [i \in Items |-> "none"]
  /\ retryTimers = {}
  /\ created = 0
  /\ sent = <<>>
  /\ halted = FALSE

\* The fields a synchronous segment of the DownloadManager reads and writes, with
\* nothing sent yet.
DCur ==
  [ downloadQueue |-> downloadQueue, isDownloading |-> isDownloading,
    activeDownloads |-> activeDownloads, downloadedCount |-> downloadedCount,
    failedCount |-> failedCount, batchCounter |-> batchCounter,
    pauseResolver |-> pauseResolver, retries |-> retries, itemAt |-> itemAt,
    retryTimers |-> retryTimers, sent |-> <<>>, halted |-> halted ]

DCommit(d) ==
  /\ downloadQueue' = d.downloadQueue
  /\ isDownloading' = d.isDownloading
  /\ activeDownloads' = d.activeDownloads
  /\ downloadedCount' = d.downloadedCount
  /\ failedCount' = d.failedCount
  /\ batchCounter' = d.batchCounter
  /\ pauseResolver' = d.pauseResolver
  /\ retries' = d.retries
  /\ itemAt' = d.itemAt
  /\ retryTimers' = d.retryTimers
  /\ sent' = d.sent
  /\ halted' = d.halted

\* chrome.runtime.sendMessage({type, data}) with the counters as they are read.
Send(d, type) ==
  [d EXCEPT !.sent = Append(@, [type |-> type, downloaded |-> d.downloadedCount,
                                failed |-> d.failedCount])]

notifyProgress(d) == Send(d, "download/progress")

\* notifyComplete() with a current tab recorded: the summary, then the counter reset.
notifyComplete(d) ==
  [Send(d, "download/complete") EXCEPT !.downloadedCount = 0, !.failedCount = 0]

\* requestBatchConfirmation() up to the promise it returns.
requestBatchConfirmation(d, i) ==
  [Send(d, "download/batch-confirm") EXCEPT !.pauseResolver = <<i>>]

\* downloadItem(item) after the optional delay: the batch gate, then the call of
\* chrome.downloads.download.
AfterDelay(d, i) ==
  IF stateSettings.batchSize > 0 /\ d.batchCounter >= stateSettings.batchSize
  THEN [requestBatchConfirmation(d, i) EXCEPT !.itemAt[i] = "confirm"]
  ELSE [d EXCEPT !.itemAt[i] = "dispatch"]

\* downloadItem(item) after requestBatchConfirmation() has settled: the batch
\* counter starts again, or the item goes back to the head of the queue.
AfterConfirm(d, i, shouldContinue) ==
  IF shouldContinue
  THEN [d EXCEPT !.batchCounter = 0, !.itemAt[i] = "dispatch"]
  ELSE [d EXCEPT !.activeDownloads = @ - 1, !.downloadQueue = <<i>> \o @,
                 !.isDownloading = FALSE, !.itemAt[i] = "none", !.halted = TRUE]

\* downloadItem(item) up to its first await.
downloadItem(d, i) ==
  LET d1 == [d EXCEPT !.activeDownloads = @ + 1]
  IN IF stateSettings.downloadDelay > 0
     THEN [d1 EXCEPT !.itemAt[i] = "delay"]
     ELSE AfterDelay(d1, i)

\* The while loop of processQueue without the concurrency limit.
RECURSIVE Drain_NoLimit(_)
Drain_NoLimit(d) ==
  IF d.downloadQueue # <<>>
  THEN Drain_NoLimit(downloadItem([d EXCEPT !.downloadQueue = Tail(@)], Head(d.downloadQueue)))
  ELSE d

\* The while loop of processQueue.
RECURSIVE Drain(_)
Drain(d) ==
  IF d.downloadQueue # <<>> /\ d.activeDownloads < concurrentDownloads
  THEN Drain(downloadItem([d EXCEPT !.downloadQueue = Tail(@)], Head(d.downloadQueue)))
  ELSE d

\* processQueue(): it never awaits, so it runs inside the segment that calls it.
processQueue(d) ==
  IF d.downloadQueue = <<>>
  THEN notifyComplete([d EXCEPT !.isDownloading = FALSE])
  ELSE Drain([d EXCEPT !.isDownloading = TRUE])

\* The end of downloadItem(item): activeDownloads--, processQueue().
Finish(d, i) ==
  processQueue([d EXCEPT !.activeDownloads = @ - 1, !.itemAt[i] = "none"])

\* downloadImages(images) with n images: one queued item each, then processQueue()
\* unless a batch is being processed.
DownloadImages(n) ==
  /\ created + n <= MaxItems
  /\ LET pushed == [DCur EXCEPT !.downloadQueue = @ \o [k \in 1..n |-> created + k],
                                !.halted = FALSE]
     IN DCommit(IF isDownloading THEN pushed ELSE processQueue(pushed))
  /\ created' = created + n
  /\ UNCHANGED <<stateMgrVars, routerVars, timerVars, monitorVars, workerVars, vars>>

\* chrome.downloads.download has resolved for item i.
DispatchOk(i) ==
  /\ itemAt[i] = "dispatch"
  /\ DCommit(Finish(notifyProgress([DCur EXCEPT !.downloadedCount = @ + 1,
                                                !.batchCounter = @ + 1]), i))
  /\ UNCHANGED <<created, stateMgrVars, routerVars, timerVars, monitorVars, workerVars, vars>>

\* The catch of downloadItem that starts a retry timer at the ceiling as well.
DispatchFails_Requeue(i) ==
  /\ itemAt[i] = "dispatch"
  /\ LET d1 == IF retries[i] < RETRY_ATTEMPTS
               THEN [DCur EXCEPT !.retries[i] = @ + 1, !.retryTimers = @ \cup {i}]
               ELSE [DCur EXCEPT !.failedCount = @ + 1, !.retryTimers = @ \cup {i}]
     IN DCommit(Finish(notifyProgress(d1), i))
  /\ UNCHANGED <<created, stateMgrVars, routerVars, timerVars, monitorVars, workerVars, vars>>

\* chrome.downloads.download has rejected for item i: a retry timer below the
\* ceiling, the permanent-failure counter at it.
DispatchFails(i) ==
  /\ itemAt[i] = "dispatch"
  /\ LET d1 == IF retries[i] < RETRY_ATTEMPTS
               THEN [DCur EXCEPT !.retries[i] = @ + 1, !.retryTimers = @ \cup {i}]
               ELSE [DCur EXCEPT !.failedCount = @ + 1]
     IN DCommit(Finish(notifyProgress(d1), i))
  /\ UNCHANGED <<created, stateMgrVars, routerVars, timerVars, monitorVars, workerVars, vars>>

\* The retry timer of item i fires: this.downloadQueue.push(item), nothing else.
RetryTimerFires(i) ==
  /\ i \in retryTimers
  /\ DCommit([DCur EXCEPT !.downloadQueue = Append(@, i), !.retryTimers = @ \ {i}])
  /\ UNCHANGED <<created, stateMgrVars, routerVars, timerVars, monitorVars, workerVars, vars>>

\* The wait(downloadDelay * 1000) of item i is over.
DelayElapsed(i) ==
  /\ itemAt[i] = "delay"
  /\ DCommit(AfterDelay(DCur, i))
  /\ UNCHANGED <<created, stateMgrVars, routerVars, timerVars, monitorVars, workerVars, vars>>

\* handleBatchResponse: resumeDownloads(message.continue) settles the promise that
\* pauseResolver belongs to, if that one is still pending, and the downloadItem()
\* that awaits it goes on; then the handler answers.
BatchResponse(shouldContinue) ==
  /\ LET d1 == [DCur EXCEPT !.pauseResolver = <<>>]
     IN DCommit(IF pauseResolver # <<>> /\ itemAt[pauseResolver[1]] = "confirm"
                THEN AfterConfirm(d1, pauseResolver[1], shouldContinue)
                ELSE d1)
  /\ response' = <<[to |-> 0, success |-> TRUE, error |-> "", added |-> 0, total |-> 0]>>
  /\ UNCHANGED <<created, stateImages, stateSettings, locks, call, mutations, routerVars, timerVars, monitorVars, workerVars, vars>>

\* The download/batch-confirm message of item i finds no receiver: the catch of
\* requestBatchConfirmation resolves the promise with false; pauseResolver stays.
ConfirmSendFails(i) ==
  /\ itemAt[i] = "confirm"
  /\ DCommit(AfterConfirm(DCur, i, FALSE))
  /\ UNCHANGED <<created, stateMgrVars, routerVars, timerVars, monitorVars, workerVars, vars>>

\* message.settings of the settings/update messages that set the batch gate and the
\* delay.
BatchSettings == {[batchSize |-> 1], [batchSize |-> 2], [downloadDelay |-> 1]}

\* A settings/update message that arrives before the first download is queued.
Configure(s) ==
  /\ created = 0
  /\ SettingsUpdate(s)

(* ---------------- ContentHasher called directly ---------------------------- *)

\* hasher.addHash(hash); fingerprints keeps the hashes passed since the last clear().
AddHash(hash) ==
  /\ Len(fingerprints) < MaxHashCalls
  /\ hashHistory' = addHash(hashHistory, hash)
  /\ fingerprints' = Append(fingerprints, hash)
  /\ UNCHANGED <<background, isActive, currentState, currentPage, attempts, method,
                 collectedImages, settings, imageExtractor, responseTimes, isMonitoring,
                 storage, storageUp, task, log, extractCalls>>

\* hasher.isRecentDuplicate(content), where content hashes to hash.
IsRecentDuplicate(hash) ==
  /\ Len(fingerprints) < MaxHashCalls
  /\ hashHistory' = isRecentDuplicate(hashHistory, hash)
  /\ fingerprints' = Append(fingerprints, hash)
  /\ UNCHANGED <<background, isActive, currentState, currentPage, attempts, method,
                 collectedImages, settings, imageExtractor, responseTimes, isMonitoring,
                 storage, storageUp, task, log, extractCalls>>

\* hasher.clear().
ClearHistory ==
  /\ hashHistory' = <<>>
  /\ fingerprints' = <<>>
  /\ UNCHANGED <<background, isActive, currentState, currentPage, attempts, method,
                 collectedImages, settings, imageExtractor, responseTimes, isMonitoring,
                 storage, storageUp, task, log, extractCalls>>

(* ---------------- AdaptiveTimer called directly ----------------------------- *)

\* The options a caller constructs a timer with; 0 stands for an option left out.
TimerOptions ==
  [ minDelay : {0, 500, 3000}, maxDelay : {0, 1200, 3000}, defaultDelay : {0, 4000} ]

\* Durations a caller records, in ms: Date.now() differences, which are negative
\* when the clock was set back in between.
Latencies == {-1, 0, 1000, 1001, 9000}

\* new AdaptiveTimer(options).
NewTimer(options) ==
  /\ timer' = AdaptiveTimer(options)
  /\ responseTimes' = <<>>
  /\ optimalDelay' = <<>>
  /\ UNCHANGED <<stateMgrVars, downloadVars, routerVars, monitorVars, workerVars, isActive,
                 currentState, currentPage, attempts, method, collectedImages, settings, imageExtractor,
                 hashHistory, isMonitoring, storage, storageUp, task, log, extractCalls,
                 fingerprints>>

\* timer.recordResponseTime(duration).
RecordResponseTime(duration) ==
  /\ responseTimes' = recordResponseTime(responseTimes, duration)
  /\ UNCHANGED <<background, isActive, currentState, currentPage, attempts, method,
                 collectedImages, settings, imageExtractor, hashHistory, isMonitoring,
                 storage, storageUp, task, log, extractCalls, fingerprints>>

\* timer.getOptimalDelay().
GetOptimalDelay ==
  /\ optimalDelay' = <<getOptimalDelay(timer, responseTimes)>>
  /\ UNCHANGED <<timer, stateMgrVars, downloadVars, routerVars, monitorVars, workerVars, vars>>

\* timer.reset().
ResetTimer ==
  /\ responseTimes' = <<>>
  /\ UNCHANGED <<background, isActive, currentState, currentPage, attempts, method,
                 collectedImages, settings, imageExtractor, hashHistory, isMonitoring,
                 storage, storageUp, task, log, extractCalls, fingerprints>>

(* ---------------- MemoryMonitor called directly ----------------------------- *)

\* Time passes: one checkInterval.
Tick ==
  /\ now < 100000 + MaxTicks * checkInterval
  /\ now' = now + checkInterval
  /\ UNCHANGED <<lastWarning, warnings, stateMgrVars, downloadVars, routerVars, timerVars,
                 workerVars, vars>>

\* memoryMonitor.start() and memoryMonitor.stop(): the interval timer is armed, cleared.
MonitorStart ==
  /\ isMonitoring' = TRUE
  /\ UNCHANGED <<background, isActive, currentState, currentPage, attempts, method,
                 collectedImages, settings, imageExtractor, hashHistory, responseTimes,
                 storage, storageUp, task, log, extractCalls, fingerprints>>

MonitorStop ==
  /\ isMonitoring' = FALSE
  /\ UNCHANGED <<background, isActive, currentState, currentPage, attempts, method,
                 collectedImages, settings, imageExtractor, hashHistory, responseTimes,
                 storage, storageUp, task, log, extractCalls, fingerprints>>

\* memoryMonitor.checkMemory(), called by the pagination loop or by anyone.
CheckMemory(reading) ==
  LET m == checkMemory([lastWarning |-> lastWarning, warnings |-> warnings], reading, now)
  IN /\ lastWarning' = m.lastWarning
     /\ warnings' = m.warnings
     /\ UNCHANGED <<now, stateMgrVars, downloadVars, routerVars, timerVars, workerVars,
                    vars>>

\* The interval timer of a started monitor fires and calls checkMemory().
Poll(reading) ==
  /\ isMonitoring
  /\ CheckMemory(reading)

(* ---------------- CheckpointManager called through the router --------------- *)

\* message.data of a checkpoint/save message; state "" stands for an absent field.
CheckpointData ==
  [ currentPage : {1, 2}, collectedImages : {<<>>, <<"a">>}, method : {"auto"},
    settings : {DefaultSettings}, totalPages : {maxPages},
    state : {"RUNNING", "PAUSED", ""} ]

\* Date.now() - checkpoint.timestamp at a loadCheckpoint() call, in ms: 1 h, 24 h, 25 h.
Ages == {3600000, 86400000, 90000000}

\* The record that saveCheckpoint(data) writes.
storeCheckpoint(data) ==
  [ currentPage |-> data.currentPage, collectedImages |-> data.collectedImages,
    method |-> data.method, settings |-> data.settings, totalPages |-> data.totalPages,
    state |-> IF data.state = "" THEN "RUNNING" ELSE data.state,
    version |-> "1.0", expired |-> FALSE ]

\* checkpoint.data of a stored record.
DataOf(record) ==
  [ f \in {"currentPage", "collectedImages", "method", "settings", "totalPages", "state"} |->
      record[f] ]

\* age > 24 h holds already at 24 h.
Expired_Inclusive(age) == age >= CHECKPOINT_TTL

\* The expiry test of loadCheckpoint.
Expired(age) == age > CHECKPOINT_TTL

\* saveCheckpoint that adds a record beside the one that exists.
CheckpointSave_Append(data) ==
  /\ storage' = IF storageUp THEN storage \o <<storeCheckpoint(data)>> ELSE storage
  /\ response' = <<[success |-> storageUp]>>
  /\ log' = <<>>
  /\ UNCHANGED <<engineVars, storageUp, task, stateImages, stateSettings, locks, call,
                 mutations, downloadVars, routerVars,
                 timerVars, monitorVars, workerVars>>

\* handleCheckpointSave: saveCheckpoint(message.data) sets the record under the
\* storage key, or catches the failure of the write and returns false.
CheckpointSave(data) ==
  /\ storage' = IF storageUp THEN <<storeCheckpoint(data)>> ELSE storage
  /\ response' = <<[success |-> storageUp]>>
  /\ log' = <<>>
  /\ UNCHANGED <<engineVars, storageUp, task, stateImages, stateSettings, locks, call,
                 mutations, downloadVars, routerVars,
                 timerVars, monitorVars, workerVars>>

\* handleCheckpointLoad: loadCheckpoint() when the stored record, if there is one, is
\* age ms old; log keeps what the CheckpointManager logs.
CheckpointLoad(age) ==
  /\ (storage # <<>> /\ storage[1].expired) => Expired(age)
  /\ IF ~storageUp
     THEN /\ response' = <<[success |-> TRUE, checkpoint |-> <<>>]>>
          /\ log' = <<"Error loading checkpoint">>
          /\ storage' = storage
     ELSE IF storage = <<>>
     THEN /\ response' = <<[success |-> TRUE, checkpoint |-> <<>>]>>
          /\ log' = <<>>
          /\ storage' = storage
     ELSE IF storage[1].version # "1.0"
     THEN /\ response' = <<[success |-> TRUE, checkpoint |-> <<>>]>>
          /\ log' = <<"Checkpoint version mismatch, clearing">>
          /\ storage' = <<>>
     ELSE IF Expired(age)
     THEN /\ response' = <<[success |-> TRUE, checkpoint |-> <<>>]>>
          /\ log' = <<"Checkpoint expired (>24h), clearing">>
          /\ storage' = <<>>
     ELSE /\ response' = <<[success |-> TRUE, checkpoint |-> <<DataOf(storage[1])>>]>>
          /\ log' = <<"Checkpoint loaded">>
          /\ storage' = storage
  /\ UNCHANGED <<engineVars, storageUp, task, stateImages, stateSettings, locks, call,
                 mutations, downloadVars, routerVars,
                 timerVars, monitorVars, workerVars>>

\* handleCheckpointClear: clearCheckpoint() removes the record, or returns false.
CheckpointClear ==
  /\ storage' = IF storageUp THEN <<>> ELSE storage
  /\ response' = <<[success |-> storageUp]>>
  /\ log' = <<>>
  /\ UNCHANGED <<engineVars, storageUp, task, stateImages, stateSettings, locks, call,
                 mutations, downloadVars, routerVars,
                 timerVars, monitorVars, workerVars>>

\* handleCheckpointExists: hasCheckpoint().
CheckpointExists ==
  /\ response' = <<[success |-> TRUE, exists |-> storageUp /\ storage # <<>>]>>
  /\ log' = <<>>
  /\ UNCHANGED <<engineVars, storage, storageUp, task, stateImages, stateSettings,
                 locks, call, mutations, downloadVars, routerVars,
                 timerVars, monitorVars, workerVars>>

\* chrome.storage.local starts or stops rejecting its requests.
StorageFlip ==
  /\ storageUp' = ~storageUp
  /\ log' = <<>>
  /\ UNCHANGED <<background, engineVars, storage, task>>

(* ---------------- MessageRouter ------------------------------------------- *)

\* Message types whose branch of handle() calls the handler directly; the handler
\* answers before it returns.
SyncTypes ==
  {"core/init", "core/gallery-detected", "core/pagination-status", "memory/warning",
   "memory/stats", "toast/show", "error/report", "get/images", "clear/images",
   "settings/get", "download/batch-response", "api/endpoint-detected", "get-status"}

\* Message types whose branch of handle() goes through safeAsyncHandler.
AsyncTypes ==
  {"core/images-found", "checkpoint/save", "checkpoint/load", "checkpoint/clear",
   "checkpoint/exists", "download/page-complete", "settings/update", "download/start",
   "download/file", "export/csv"}

\* The pagination commands that handle() forwards to the active tab when the sender
\* is not a tab.
PaginationCommands ==
  {"core/pagination-start", "core/pagination-stop", "core/pagination-pause",
   "core/pagination-resume", "core/pagination-cancel"}

\* The pagination commands that have a branch of their own, taken for senders that
\* are tabs.
TabPaginationCommands ==
  {"core/pagination-pause", "core/pagination-resume", "core/pagination-cancel"}

\* Types that handle() has no branch for: the status messages that the coordinator
\* and the content script broadcast.
StatusTypes == {"download/progress", "download/complete", "download/batch-confirm", "ack"}

\* message.type of a delivered message; "" stands for a message without a type.
MessageTypes ==
  SyncTypes \cup AsyncTypes \cup PaginationCommands \cup StatusTypes \cup {""}

\* The branch of handle() that a message takes.
Route(type, fromTab) ==
  CASE type = "" -> "invalid"
    [] type \in SyncTypes -> "sync"
    [] type \in AsyncTypes -> "async"
    [] ~fromTab /\ type \in PaginationCommands -> "async"
    [] type \in TabPaginationCommands -> "async"
    [] OTHER -> "unhandled"

IdleRequest == [pc |-> "free", type |-> "", fromTab |-> FALSE, responses |-> <<>>]

\* No message has been delivered.
MessageRouterInit == requests = [r \in Requests |-> IdleRequest]

\* sendResponse({success, ...}) on the channel of request q.
Respond(q, success) == [q EXCEPT !.responses = Append(@, success), !.pc = "closed"]

\* The onMessage listener and handle() for one message, up to their return: ready is
\* isInitialized as the listener reads it, throws tells whether the handler throws
\* before it answers.
Deliver(r, type, fromTab, ready, throws) ==
  /\ requests[r].pc # "pending"
  /\ LET q == [pc |-> "pending", type |-> type, fromTab |-> fromTab, responses |-> <<>>]
         route == Route(type, fromTab)
     IN requests' = [requests EXCEPT ![r] =
          IF ~ready THEN Respond(q, FALSE)
          ELSE CASE route = "invalid" -> Respond(q, FALSE)
                 [] route = "sync" -> Respond(q, ~throws)
                 [] route = "async" -> q
                 [] OTHER -> [q EXCEPT !.pc = "closed"]]
  /\ UNCHANGED <<outbound, stateMgrVars, downloadVars, timerVars, monitorVars, workerVars, vars>>

\* The asynchronous handler of request r settles: it answers in its try block, or
\* in its catch block (or in the one of safeAsyncHandler) when what it awaits rejects.
HandlerSettles(r, ok) ==
  /\ requests[r].pc = "pending"
  /\ requests' = [requests EXCEPT ![r] = Respond(@, ok)]
  /\ UNCHANGED <<outbound, stateMgrVars, downloadVars, timerVars, monitorVars, workerVars, vars>>

(* ---------------- requests to other contexts ------------------------------ *)

\* MessageRouter.sendTabMessageWithTimeout, the dashboard's sendMessageWithTimeout
\* and sendTabMessageWithTimeout, ExportController.sendToOffscreen.
Channels == {"background->tab", "ui->background", "ui->tab", "background->offscreen"}

\* sendToOffscreen starts no timer.
HasTimer(ch) == ch # "background->offscreen"

\* The default timeout of each helper, in ms.
Timeout(ch) ==
  CASE ch = "background->tab" -> TAB_MESSAGE_TIMEOUT
    [] ch = "ui->background" -> MESSAGE_TIMEOUT
    [] ch = "ui->tab" -> UI_TAB_MESSAGE_TIMEOUT
    [] OTHER -> 0

\* Time between the call of the chrome API and its callback, in ms.
CallbackTimes == {100, 4000, 6000}

IdleOutbound ==
  [channel |-> "none", promise |-> "none", timer |-> "none", called |-> FALSE]

\* No request has been sent.
OutboundInit == outbound = [k \in Outbound |-> IdleOutbound]

\* resolve() and reject() that replace the outcome of a promise already settled.
Settle_Overwrite(o, outcome) == [o EXCEPT !.promise = outcome]

\* resolve() and reject() of a promise: only the first call has an effect.
Settle(o, outcome) ==
  IF o.promise = "pending" THEN [o EXCEPT !.promise = outcome] ELSE o

\* clearTimeout(timeoutId).
clearTimeout(o) == IF o.timer = "armed" THEN [o EXCEPT !.timer = "cleared"] ELSE o

\* The executor of the promise: the timer is started (where the helper has one) and
\* the chrome API is called; when that call throws, the timer is cleared and the
\* promise rejected.
SendRequest(k, ch, throws) ==
  /\ outbound[k].promise # "pending"
  /\ LET o == [channel |-> ch, promise |-> "pending",
               timer |-> IF HasTimer(ch) THEN "armed" ELSE "none", called |-> FALSE]
     IN outbound' = [outbound EXCEPT ![k] =
          IF throws THEN [Settle(clearTimeout(o), "error") EXCEPT !.called = TRUE] ELSE o]
  /\ UNCHANGED <<requests, stateMgrVars, downloadVars, timerVars, monitorVars, workerVars, vars>>

\* The callback of the chrome API runs, elapsed ms after the call: before the timer
\* fires if that is less than the timeout, after it otherwise.
Callback(k, elapsed, lastError) ==
  /\ outbound[k].channel # "none"
  /\ ~outbound[k].called
  /\ outbound[k].timer = "armed" => elapsed < Timeout(outbound[k].channel)
  /\ outbound[k].timer = "fired" => elapsed >= Timeout(outbound[k].channel)
  /\ LET o == [clearTimeout(outbound[k]) EXCEPT !.called = TRUE]
     IN outbound' = [outbound EXCEPT ![k] =
          Settle(o, IF lastError THEN "error" ELSE "resolved")]
  /\ UNCHANGED <<requests, stateMgrVars, downloadVars, timerVars, monitorVars, workerVars, vars>>

\* The timeout timer of request k fires.
TimeoutFires(k) ==
  /\ outbound[k].timer = "armed"
  /\ outbound' = [outbound EXCEPT ![k] = Settle([@ EXCEPT !.timer = "fired"], "timeout")]
  /\ UNCHANGED <<requests, stateMgrVars, downloadVars, timerVars, monitorVars, workerVars, vars>>

(* ---------------- initial state ------------------------------------------ *)

\* Checkpoints a previous page context can have left in the storage area.
LeftOver ==
  { [ currentPage |-> 2, collectedImages |-> <<"a">>, method |-> "nextButton",
      settings |-> [DefaultSettings EXCEPT !.enableAdaptiveTiming = FALSE],
      totalPages |-> maxPages, state |-> "PAUSED", version |-> "1.0", expired |-> FALSE ],
    [ currentPage |-> 2, collectedImages |-> <<"a">>, method |-> "nextButton",
      settings |-> DefaultSettings,
      totalPages |-> maxPages, state |-> "RUNNING", version |-> "0.9", expired |-> FALSE ] }

\* The engine as its constructor leaves it; the storage area is empty or holds a
\* record of an earlier context.
Init ==
  /\ isActive = FALSE
  /\ currentState = "IDLE"
  /\ currentPage = 1
  /\ attempts = 0
  /\ method = "auto"
  /\ collectedImages = <<>>
  /\ settings = DefaultSettings
  /\ imageExtractor = FALSE
  /\ hashHistory = <<>>
  /\ responseTimes = <<>>
  /\ isMonitoring = FALSE
  /\ storage \in {<<>>} \cup {<<c>> : c \in LeftOver}
  /\ storageUp = TRUE
  /\ task = [t \in Tasks |-> IdleTask]
  /\ log = <<>>
  /\ extractCalls = 0
  /\ fingerprints = <<>>
  /\ AdaptiveTimerInit
  /\ MemoryMonitorInit
  /\ WorkerInit
  /\ MessageRouterInit
  /\ OutboundInit
  /\ StateManagerInit
  /\ DownloadManagerInit

(* ---------------- commands of the content script -------------------------- *)

\* initialize(): paginationEngine.setImageExtractor(imageExtractor).
SetImageExtractor ==
  /\ ~imageExtractor
  /\ imageExtractor' = TRUE
  /\ log' = <<>>
  /\ UNCHANGED <<background, isActive, currentState, currentPage, attempts, method,
                 collectedImages, settings, hashHistory, responseTimes, isMonitoring,
                 storage, storageUp, task, extractCalls, fingerprints>>

\* handlePaginationStart: paginationEngine.updateSettings(stored.settings).
UpdateSettings(s) ==
  /\ settings' = updateSettings(settings, s)
  /\ log' = <<>>
  /\ UNCHANGED <<background, isActive, currentState, currentPage, attempts, method,
                 collectedImages, imageExtractor, hashHistory, responseTimes, isMonitoring,
                 storage, storageUp, task, extractCalls, fingerprints>>

FreeTasks == {t \in Tasks : task[t].pc = "idle"}

\* start(method) without the isActive guard.
StartCall_NoActiveGuard(m) ==
  IF ~imageExtractor
  THEN /\ log' = <<"Image extractor not initialized">>
       /\ UNCHANGED <<background, engineVars, storage, storageUp, task>>
  ELSE /\ FreeTasks # {}
       /\ LET t == CHOOSE x \in FreeTasks : \A y \in FreeTasks : x <= y
          IN task' = [task EXCEPT ![t] =
                        [pc |-> "load", arg |-> m,
                         loaded |-> IF storageUp THEN storage ELSE <<>>]]
       /\ log' = <<>>
       /\ UNCHANGED <<background, engineVars, storage, storageUp>>

\* start(method) up to its await on loadCheckpoint(): the two guards, then the read.
StartCall(m) ==
  IF isActive
  THEN /\ log' = <<"Pagination is already running">>
       /\ UNCHANGED <<background, engineVars, storage, storageUp, task>>
  ELSE IF ~imageExtractor
  THEN /\ log' = <<"Image extractor not initialized">>
       /\ UNCHANGED <<background, engineVars, storage, storageUp, task>>
  ELSE /\ FreeTasks # {}
       /\ LET t == CHOOSE x \in FreeTasks : \A y \in FreeTasks : x <= y
          IN task' = [task EXCEPT ![t] =
                        [pc |-> "load", arg |-> m,
                         loaded |-> IF storageUp THEN storage ELSE <<>>]]
       /\ log' = <<>>
       /\ UNCHANGED <<background, engineVars, storage, storageUp>>

\* pause(): the state change and the checkpoint write.
Pause ==
  /\ Commit(pause(Cur))
  /\ UNCHANGED <<background, imageExtractor, storageUp, task>>

\* resume().
Resume ==
  /\ Commit(IF currentState # "PAUSED"
            THEN showToast(Cur, "Cannot resume: not paused")
            ELSE showToast([Cur EXCEPT !.currentState = "RUNNING"], "Pagination resumed"))
  /\ UNCHANGED <<background, imageExtractor, storageUp, task>>

\* cancel(): from any state.
Cancel ==
  /\ Commit(clearCheckpoint(showToast(
              [Cur EXCEPT !.currentState = "CANCELLED", !.isActive = FALSE],
              "Pagination cancelled")))
  /\ UNCHANGED <<background, imageExtractor, storageUp, task>>

\* handlePaginationStop: paginationEngine.stop().
Stop ==
  /\ Commit(stop(Cur))
  /\ UNCHANGED <<background, imageExtractor, storageUp, task>>

(* ---------------- continuations of a start() invocation ------------------- *)

\* loadCheckpoint() after the read, then start() when the record is usable or absent.
LoadDone(t, mem) ==
  /\ task[t].pc = "load"
  /\ IF task[t].loaded # <<>> /\ ~ValidCheckpoint(task[t].loaded)
     THEN Continue(t, [e |-> clearCheckpoint(Cur), pc |-> "loadClear"])
     ELSE Continue(t, StartBody(Cur, task[t].loaded, task[t].arg, mem))
  /\ UNCHANGED <<background, imageExtractor, storageUp>>

\* loadCheckpoint() has cleared an unusable record and returns null.
LoadCleared(t, mem) ==
  /\ task[t].pc = "loadClear"
  /\ Continue(t, StartBody(Cur, <<>>, task[t].arg, mem))
  /\ UNCHANGED <<background, imageExtractor, storageUp>>

\* hashContent before the action has resolved: executeMethod() is called.
BeforeHashDone(t) ==
  /\ task[t].pc = "beforeHash"
  /\ Continue(t, [e |-> Cur, pc |-> "exec"])
  /\ UNCHANGED <<background, imageExtractor, storageUp>>

\* executeMethod() has returned success: attempts++, settle delay, second hash.
ExecDone(t, success) ==
  /\ task[t].pc = "exec"
  /\ IF success
     THEN Continue(t, [e |-> [Cur EXCEPT !.attempts = @ + 1], pc |-> "afterHash"])
     ELSE Continue(t, LeaveLoop(showToast(Cur, "No more pages to paginate")))
  /\ UNCHANGED <<background, imageExtractor, storageUp>>

\* The post-action hash has resolved: duplicate check, addHash, extraction is called.
AfterHashDone(t, hash) ==
  /\ task[t].pc = "afterHash"
  /\ IF isDuplicate(hashHistory, hash)
     THEN Continue(t, LeaveLoop(showToast([Cur EXCEPT !.fingerprints = Append(@, hash)],
                                          "Duplicate content detected")))
     ELSE Continue(t, [e |-> [Cur EXCEPT !.hashHistory = addHash(@, hash),
                                         !.extractCalls = @ + 1, !.fingerprints = Append(@, hash)],
                       pc |-> "extract"])
  /\ UNCHANGED <<background, imageExtractor, storageUp>>

\* The extractor has returned images: push, download request, timer sample, and
\* either the checkpoint write or the page advance and the delay.
ExtractDone(t, images, duration) ==
  /\ task[t].pc = "extract"
  /\ Len(collectedImages) + Len(images) <= MaxImages
  /\ LET e1 == [Cur EXCEPT !.collectedImages = @ \o images]
         e2 == IF e1.settings.enableAdaptiveTiming
               THEN [e1 EXCEPT !.responseTimes = recordResponseTime(@, duration)]
               ELSE e1
     IN IF shouldCheckpoint(e2.currentPage)
        THEN Continue(t, [e |-> saveCheckpoint(e2), pc |-> "ckpt"])
        ELSE Continue(t, [e |-> Advance(e2), pc |-> "delay"])
  /\ UNCHANGED <<background, imageExtractor, storageUp>>

\* The checkpoint write of the iteration has resolved.
CheckpointDone(t) ==
  /\ task[t].pc = "ckpt"
  /\ Continue(t, [e |-> Advance(Cur), pc |-> "delay"])
  /\ UNCHANGED <<background, imageExtractor, storageUp>>

\* The inter-page delay has elapsed: next evaluation of the loop condition.
DelayDone(t, mem) ==
  /\ task[t].pc = "delay"
  /\ Continue(t, LoopHead(Cur, mem))
  /\ UNCHANGED <<background, imageExtractor, storageUp>>

\* pause() and the 5000 ms wait of the memory guard are over: continue.
MemoryWaitDone(t, mem) ==
  /\ task[t].pc = "memWait"
  /\ Continue(t, LoopHead(Cur, mem))
  /\ UNCHANGED <<background, imageExtractor, storageUp>>

\* An awaited step of the iteration rejects (hashing or the pagination method).
StepThrows(t) ==
  /\ task[t].pc \in {"beforeHash", "exec", "afterHash"}
  /\ Continue(t, Throw(Cur))
  /\ UNCHANGED <<background, imageExtractor, storageUp>>

(* ---------------- environment --------------------------------------------- *)

\* More than 24 h have passed since the records that exist were written: the stored
\* one and the ones a suspended loadCheckpoint() has read and not yet dated.
Age(slot) == IF slot = <<>> THEN slot ELSE <<[slot[1] EXCEPT !.expired = TRUE]>>

Expire ==
  /\ \/ storage # Age(storage)
     \/ \E t \in Tasks : task[t].loaded # Age(task[t].loaded)
  /\ storage' = Age(storage)
  /\ task' = [t \in Tasks |-> [task[t] EXCEPT !.loaded = Age(@)]]
  /\ log' = <<>>
  /\ UNCHANGED <<background, engineVars, storageUp>>

\* A start command that arrives while no earlier start() invocation is suspended
\* (or that start() rejects at once).
StartCommand(m) ==
  /\ isActive \/ ~imageExtractor \/ FreeTasks = Tasks
  /\ StartCall(m)

\* The content script with start commands that do not overlap an earlier invocation,
\* stored settings that change, and records that age.
Next ==
  \/ SetImageExtractor
  \/ \E s \in StoredSettings : UpdateSettings(s)
  \/ \E m \in Methods : StartCommand(m)
  \/ Pause
  \/ Resume
  \/ Cancel
  \/ Stop
  \/ \E t \in Tasks, mem \in MemoryReadings : LoadDone(t, mem)
  \/ \E t \in Tasks, mem \in MemoryReadings : LoadCleared(t, mem)
  \/ \E t \in Tasks : BeforeHashDone(t)
  \/ \E t \in Tasks, success \in BOOLEAN : ExecDone(t, success)
  \/ \E t \in Tasks, hash \in Hashes : AfterHashDone(t, hash)
  \/ \E t \in Tasks, images \in Extracted, d \in Durations : ExtractDone(t, images, d)
  \/ \E t \in Tasks : CheckpointDone(t)
  \/ \E t \in Tasks, mem \in MemoryReadings : DelayDone(t, mem)
  \/ \E t \in Tasks, mem \in MemoryReadings : MemoryWaitDone(t, mem)
  \/ \E t \in Tasks : StepThrows(t)
  \/ Expire

Spec == Init /\ [][Next]_vars

\* The content script with start commands at any time, so that several start()
\* invocations are suspended together; the stored settings stay at the defaults.
\* It starts without a usable checkpoint in chrome.storage.local: the checkpoints
\* it resumes from are the ones its own runs save.
NextRace ==
  \/ SetImageExtractor
  \/ \E m \in Methods : StartCall(m)
  \/ Pause
  \/ Resume
  \/ Cancel
  \/ Stop
  \/ \E t \in Tasks, mem \in MemoryReadings : LoadDone(t, mem)
  \/ \E t \in Tasks, mem \in MemoryReadings : LoadCleared(t, mem)
  \/ \E t \in Tasks : BeforeHashDone(t)
  \/ \E t \in Tasks, success \in BOOLEAN : ExecDone(t, success)
  \/ \E t \in Tasks, hash \in Hashes : AfterHashDone(t, hash)
  \/ \E t \in Tasks, images \in Extracted, d \in Durations : ExtractDone(t, images, d)
  \/ \E t \in Tasks : CheckpointDone(t)
  \/ \E t \in Tasks, mem \in MemoryReadings : DelayDone(t, mem)
  \/ \E t \in Tasks, mem \in MemoryReadings : MemoryWaitDone(t, mem)
  \/ \E t \in Tasks : StepThrows(t)

InitRace == Init /\ ~ValidCheckpoint(storage)

SpecRace == InitRace /\ [][NextRace]_vars

\* A page context that starts without a usable checkpoint: the slot is empty or holds
\* a record that loadCheckpoint() rejects and clears.
InitFresh == Init /\ ~ValidCheckpoint(storage)

\* The content script on a site whose pages have three distinguishable fingerprints.
NextFresh ==
  \/ Next
  \/ \E t \in Tasks, hash \in Fingerprints : AfterHashDone(t, hash)

SpecFresh == InitFresh /\ [][NextFresh]_vars

\* The background coordinator beside a content script that has not started.
InitBackground == Init /\ storage = <<>>

\* The coordinator's shared state under image batches, clear and settings messages,
\* and withLock() callers whose operation awaits.
NextState ==
  \/ \E images \in Batches : ImagesFound(images)
  \/ WithLock
  \/ \E c \in Callers, elapsed \in LockWaits : PollWake(c, elapsed)
  \/ \E c \in Callers : OpReturns(c)
  \/ \E c \in Callers : OpThrows(c)
  \/ ClearImages
  \/ \E s \in SettingsUpdates : SettingsUpdate(s)

SpecState == InitBackground /\ [][NextState]_<<vars, background>>

\* The DownloadManager with the default settings (no delay, no batch confirmation).
NextDownload ==
  \/ \E n \in 0..MaxItems : DownloadImages(n)
  \/ \E i \in Items : DispatchOk(i)
  \/ \E i \in Items : DispatchFails(i)
  \/ \E i \in Items : RetryTimerFires(i)

SpecDownload == InitBackground /\ [][NextDownload]_<<vars, background>>

\* The DownloadManager with the batch gate and the delay as configured before the
\* first download, and a confirmer who answers at any time.
NextBatch ==
  \/ \E s \in BatchSettings : Configure(s)
  \/ \E n \in 0..MaxItems : DownloadImages(n)
  \/ \E i \in Items : DelayElapsed(i)
  \/ \E shouldContinue \in BOOLEAN : BatchResponse(shouldContinue)
  \/ \E i \in Items : ConfirmSendFails(i)
  \/ \E i \in Items : DispatchOk(i)
  \/ \E i \in Items : DispatchFails(i)
  \/ \E i \in Items : RetryTimerFires(i)

SpecBatch == InitBackground /\ [][NextBatch]_<<vars, background>>

\* The message router under messages of every type from tabs and from the UI.
NextRouter ==
  \/ \E r \in Requests, type \in MessageTypes, fromTab, ready, throws \in BOOLEAN :
       Deliver(r, type, fromTab, ready, throws)
  \/ \E r \in Requests, ok \in BOOLEAN : HandlerSettles(r, ok)

SpecRouter == InitBackground /\ [][NextRouter]_<<vars, background>>

\* The requests that the coordinator and the dashboard send to other contexts.
NextOutbound ==
  \/ \E k \in Outbound, ch \in Channels, throws \in BOOLEAN : SendRequest(k, ch, throws)
  \/ \E k \in Outbound, elapsed \in CallbackTimes, lastError \in BOOLEAN :
       Callback(k, elapsed, lastError)
  \/ \E k \in Outbound : TimeoutFires(k)

SpecOutbound == InitBackground /\ [][NextOutbound]_<<vars, background>>

\* Runs of the content script that no command interrupts, over a storage area that
\* starts and stops rejecting requests; performance.memory is not available.
NextStorage ==
  \/ SetImageExtractor
  \/ \E m \in Methods : StartCommand(m)
  \/ \E t \in Tasks : LoadDone(t, "none")
  \/ \E t \in Tasks : LoadCleared(t, "none")
  \/ \E t \in Tasks : BeforeHashDone(t)
  \/ \E t \in Tasks, success \in BOOLEAN : ExecDone(t, success)
  \/ \E t \in Tasks, hash \in Hashes : AfterHashDone(t, hash)
  \/ \E t \in Tasks, images \in Extracted, d \in Durations : ExtractDone(t, images, d)
  \/ \E t \in Tasks : CheckpointDone(t)
  \/ \E t \in Tasks : DelayDone(t, "none")
  \/ \E t \in Tasks : StepThrows(t)
  \/ StorageFlip

SpecStorage == Init /\ [][NextStorage]_vars

\* The ContentHasher under calls in any order.
NextHasher ==
  \/ \E hash \in Fingerprints : AddHash(hash)
  \/ \E hash \in Fingerprints : IsRecentDuplicate(hash)
  \/ ClearHistory

SpecHasher == InitBackground /\ [][NextHasher]_<<vars, background>>

\* The awaited steps of a start() invocation, each returning.
RunSteps ==
  \/ \E t \in Tasks, mem \in MemoryReadings : LoadDone(t, mem)
  \/ \E t \in Tasks, mem \in MemoryReadings : LoadCleared(t, mem)
  \/ \E t \in Tasks : BeforeHashDone(t)
  \/ \E t \in Tasks, success \in BOOLEAN : ExecDone(t, success)
  \/ \E t \in Tasks, hash \in Hashes : AfterHashDone(t, hash)
  \/ \E t \in Tasks, images \in Extracted, d \in Durations : ExtractDone(t, images, d)
  \/ \E t \in Tasks : CheckpointDone(t)
  \/ \E t \in Tasks, mem \in MemoryReadings : DelayDone(t, mem)
  \/ \E t \in Tasks, mem \in MemoryReadings : MemoryWaitDone(t, mem)

\* Runs that no command disturbs: start commands that do not overlap an invocation,
\* and the steps of the invocation.  A promise that is settled has its continuation
\* run (the event loop leaves no ready continuation waiting for ever), so the steps
\* are weakly fair.
NextRun ==
  \/ SetImageExtractor
  \/ \E m \in Methods : StartCommand(m)
  \/ RunSteps

SpecRun == Init /\ [][NextRun]_vars /\ WF_vars(RunSteps)

\* The service worker from its start: messages arrive while initialize() awaits the
\* storage and after it.
NextInit ==
  \/ \E script \in Entries, stored \in StoredStates : WorkerStart(script, stored)
  \/ InitializeDone
  \/ InitializeFails
  \/ \E images \in Batches : ImagesFoundMessage(images)
  \/ \E s \in SettingsUpdates : SettingsUpdateMessage(s)

SpecInit == Init /\ [][NextInit]_<<vars, background>>

\* A memory monitor of its own: started and stopped, polled by its timer and asked
\* by direct callers, as time passes.
NextMonitor ==
  \/ Tick
  \/ MonitorStart
  \/ MonitorStop
  \/ \E reading \in MemoryReadings : CheckMemory(reading)
  \/ \E reading \in MemoryReadings : Poll(reading)

SpecMonitor == Init /\ [][NextMonitor]_<<vars, background>>

\* A timer of its own: a caller constructs it, records durations, asks for the delay
\* and resets it, in any order.
NextTimer ==
  \/ \E options \in TimerOptions : NewTimer(options)
  \/ \E duration \in Latencies : RecordResponseTime(duration)
  \/ GetOptimalDelay
  \/ ResetTimer

SpecTimer == Init /\ [][NextTimer]_<<vars, background>>

\* The CheckpointManager of the coordinator under checkpoint messages, handled one
\* after the other, over a storage area that can fail.
NextCheckpoint ==
  \/ \E data \in CheckpointData : CheckpointSave(data)
  \/ \E age \in Ages : CheckpointLoad(age)
  \/ CheckpointClear
  \/ CheckpointExists
  \/ StorageFlip

SpecCheckpoint == Init /\ [][NextCheckpoint]_<<vars, background>>

(* ---------------- properties ---------------------------------------------- *)

\* Invocations that are inside paginationLoop.
LoopPcs == {"waitForResume", "memWait", "beforeHash", "exec", "afterHash", "extract",
            "ckpt", "delay"}
InLoop(t) == task[t].pc \in LoopPcs

\* The branch of the loop that waits for resume() is never entered: the loop
\* condition has already required RUNNING.
WaitForResumeIsDead == \A t \in Tasks : task[t].pc # "waitForResume"

\* A start() invocation passes loadCheckpoint() in this step: a new run takes effect.
StartTakesEffect ==
  \E t \in Tasks :
    task[t].pc \in {"load", "loadClear"} /\ task'[t].pc \notin {"load", "loadClear"}

\* C1: a run that is paused by the user is not ended by the pause: the loop, when it
\* comes back to its condition after the inter-page delay and finds the state PAUSED,
\* stays in the loop (it blocks until resume or cancel) instead of returning.
C1_PausedLoopKeepsRunning ==
  [][\A t \in Tasks :
       (task[t].pc = "delay" /\ currentState = "PAUSED") => task'[t].pc # "idle"]_vars

\* C2: once the state is CANCELLED it stays CANCELLED, also through the step in which
\* the loop observes the cancellation and start() runs stop(), until a new start()
\* takes effect (an explicit stop command and a step that throws are not counted).
C2_CancelledStaysCancelled ==
  [][(currentState = "CANCELLED" /\ ~Stop /\ ~StartTakesEffect
        /\ ~(\E t \in Tasks : StepThrows(t))) =>
       currentState' = "CANCELLED"]_vars

\* C3: when an awaited step of the iteration throws, start() returns with the state
\* ERROR and the memory monitor stopped.
C3_ErrorLeavesStateError ==
  [][\A t \in Tasks : StepThrows(t) => (currentState' = "ERROR" /\ ~isMonitoring')]_vars

\* C4: at most one pagination loop is executing at any time.
C4_AtMostOneLoop == Cardinality({t \in Tasks : InLoop(t)}) <= 1

\* C5: while a run is active no step starts another start() invocation, and a start()
\* call leaves state, page, method, attempts, images, histories, checkpoint and the
\* running invocations as they are.
C5_StartWhileActiveIsNoOp ==
  [][isActive =>
       /\ \A t \in Tasks : task[t].pc = "idle" => task'[t].pc = "idle"
       /\ (\E m \in Methods : StartCall(m)) => UNCHANGED <<engineVars, storage, task>>]_vars

\* C5 witness: a start() call has just been rejected while a loop is in flight.
C5_Witness ==
  /\ log = <<"Pagination is already running">>
  /\ isActive
  /\ \E t \in Tasks : InLoop(t)

\* C6: while the run is paused, the checkpoint that pause() wrote stays in the slot
\* unless the user resumes, cancels or stops.
C6_PausedCheckpointStays ==
  [][(currentState = "PAUSED" /\ storage # <<>> /\ ~Resume /\ ~Cancel /\ ~Stop) =>
       storage' # <<>>]_vars

\* C7: after cancel() the checkpoint slot is empty and stays empty for as long as the
\* state is CANCELLED and no new start() takes effect: the cancelled run writes no
\* checkpoint.
C7_NoCheckpointAfterCancel ==
  [][(currentState = "CANCELLED" /\ storage = <<>> /\ ~StartTakesEffect) =>
       storage' = <<>>]_vars

\* C8: the memory guard does not end the run: after its pause and cooldown wait the
\* invocation is still in the loop (it checks memory again).
C8_MemoryPauseKeepsRunning ==
  [][\A t \in Tasks :
       (task[t].pc = "memWait" /\ currentState = "PAUSED") => InLoop(t)']_vars

\* C9: pause() outside RUNNING and resume() outside PAUSED change neither state,
\* page, attempts nor images, and write no checkpoint.
C9_IllegalPauseResumeAreNoOps ==
  [][((currentState # "RUNNING" /\ Pause) \/ (currentState # "PAUSED" /\ Resume)) =>
       UNCHANGED <<currentState, currentPage, attempts, collectedImages, storage>>]_vars

\* C9 witness: pause() was just refused in a state that is not RUNNING while a
\* checkpoint of an earlier context is in the slot.
C9_Witness ==
  /\ log = <<"Cannot pause: not running">>
  /\ currentState # "RUNNING"
  /\ storage # <<>>

\* C10: when start() passes loadCheckpoint(), the run begins from the checkpoint's
\* page, images, method and settings if a usable record was read, and from page 1, no
\* images and the method argument otherwise; attempts is 0 and the fingerprint history
\* and the timer samples are empty.
C10_StartBeginsFromCheckpointOrFresh ==
  [][\A t \in Tasks :
       (task[t].pc \in {"load", "loadClear"} /\ task'[t].pc \notin {"load", "loadClear"}) =>
         /\ attempts' = 0
         /\ hashHistory' = <<>>
         /\ responseTimes' = <<>>
         /\ IF ValidCheckpoint(task[t].loaded)
            THEN /\ currentPage' = task[t].loaded[1].currentPage
                 /\ collectedImages' = task[t].loaded[1].collectedImages
                 /\ method' = task[t].loaded[1].method
                 /\ settings' = task[t].loaded[1].settings
            ELSE /\ currentPage' = 1
                 /\ collectedImages' = <<>>
                 /\ method' = task[t].arg]_vars

\* C10 witness: a run has just begun from the checkpoint of an earlier context.
C10_Witness ==
  /\ log = <<"Resume from page", "Starting pagination">>
  /\ currentPage = 2
  /\ collectedImages = <<"a">>
  /\ method = "nextButton"
  /\ \E t \in Tasks : task[t].pc = "beforeHash"

\* C11: a fresh run whose pagination method has succeeded k times, each time with a
\* fingerprint that was not in the history, and then reports that no further page is
\* available ends with currentPage = k + 1, state COMPLETE, the engine inactive and
\* exactly k extraction calls (k is below maxPages whenever the method is asked).
C11_FreshRunEndsAfterLastPage ==
  [][\A t \in Tasks :
       ExecDone(t, FALSE) =>
         /\ attempts < maxPages
         /\ currentPage' = attempts + 1
         /\ extractCalls' = attempts
         /\ Len(fingerprints') = attempts
         /\ currentState' = "COMPLETE"
         /\ ~isActive'
         /\ task'[t].pc = "idle"]_vars

\* C11 witness: a run has just ended after two successful pages out of at most three.
C11_Witness ==
  /\ log = <<"No more pages to paginate", "Pagination complete">>
  /\ attempts = 2
  /\ currentPage = 3
  /\ extractCalls = 2
  /\ currentState = "COMPLETE"
  /\ \A t \in Tasks : task[t].pc = "idle"

\* The last n elements of seq.
Window(seq, n) == IF Len(seq) > n THEN SubSeq(seq, Len(seq) - n + 1, Len(seq)) ELSE seq

PairwiseDistinct(seq) == \A i, j \in 1..Len(seq) : seq[i] = seq[j] => i = j

\* C12: the run ends at the first iteration whose post-action fingerprint equals one
\* of the last lookbackSize fingerprints of the run, and goes on to extraction
\* otherwise; in particular the duplicate check does not end a run whose fingerprints
\* are pairwise distinct.
C12_DuplicateEndsRun ==
  [][\A t \in Tasks, h \in Fingerprints :
       AfterHashDone(t, h) =>
         /\ Includes(Window(fingerprints, lookbackSize), h) =>
              /\ task'[t].pc = "idle"
              /\ log'[1] = "Duplicate content detected"
              /\ currentState' = "COMPLETE"
              /\ extractCalls' = extractCalls
         /\ ~Includes(Window(fingerprints, lookbackSize), h) => task'[t].pc = "extract"
         /\ PairwiseDistinct(fingerprints') => task'[t].pc = "extract"]_vars

\* C12 witness: the fingerprints A, B, A have ended a run at the second A.
C12_Witness ==
  /\ fingerprints = <<"A", "B", "A">>
  /\ log # <<>>
  /\ log[1] = "Duplicate content detected"
  /\ extractCalls = 2
  /\ \A t \in Tasks : task[t].pc = "idle"

\* C13: no two entries of the shared collection have the same fileUrl, whatever
\* batches have been ingested (batches that repeat a fileUrl included).
C13_NoDuplicateFileUrl == PairwiseDistinct(stateImages)

\* Calls that are inside their operation.
InOperation == {c \in Callers : call[c].pc = "inOp"}

\* C14: the critical sections of withLock("images", ...) calls do not interleave: at
\* most one call is inside its operation, and an ingestion under the lock does not
\* happen while another call is inside its operation.
C14_CriticalSectionsDoNotInterleave ==
  /\ Cardinality(InOperation) <= 1
  /\ \A k \in 1..Len(mutations) :
       mutations[k].by # 0 => InOperation \subseteq {mutations[k].by}

\* C15: withLock releases the lock it has acquired when the operation returns and
\* when it throws, so that a later call acquires it at once; a call that finds the
\* lock held keeps polling until the timeout, and after it fails with the lock-timeout
\* error without having run its operation.
C15_WithLockReleasesAndTimesOut ==
  [][/\ \A c \in Callers :
          (OpReturns(c) \/ OpThrows(c)) =>
            /\ "images" \notin DOMAIN locks'
            /\ call'[c].pc = "idle"
     /\ ("images" \notin DOMAIN locks /\ \E images \in Batches : ImagesFound(images)) =>
          /\ "images" \notin DOMAIN locks'
          /\ mutations' # <<>>
     /\ ("images" \notin DOMAIN locks /\ WithLock) =>
          \E c \in Callers : call'[c].pc = "inOp" /\ locks'["images"] = c
     /\ \A c \in Callers, elapsed \in LockWaits :
          ("images" \in DOMAIN locks /\ PollWake(c, elapsed)) =>
            IF elapsed > LOCK_TIMEOUT
            THEN /\ call'[c].pc = "idle"
                 /\ response' = Failure(c, "Failed to acquire lock: images")
                 /\ mutations' = <<>>
                 /\ stateImages' = stateImages
            ELSE /\ call'[c] = call[c]
                 /\ response' = <<>>]_<<vars, background>>

\* C15 witness: an operation has just thrown, the lock is free again, and a call that
\* was polling for it is still waiting.
C15_Witness ==
  /\ response # <<>>
  /\ response[1].error = "operation failed"
  /\ "images" \notin DOMAIN locks
  /\ \E c \in Callers : call[c].pc = "poll"

\* C16: every change of the shared collection and of the shared settings by a message
\* handler is made while the handler's call holds the lock of that name.
C16_MutationsUnderLock ==
  \A k \in 1..Len(mutations) :
    /\ mutations[k].target \in DOMAIN mutations[k].locks
    /\ mutations[k].locks[mutations[k].target] = mutations[k].by

\* Item i is neither queued, nor in a retry timer, nor in flight.
Absent(i) == itemAt[i] = "none" /\ i \notin retryTimers /\ ~Includes(downloadQueue, i)

\* C17 as stated: an item whose dispatch has failed RETRY_ATTEMPTS times (item.retries
\* counts the failures) is not queued, waiting for a retry or in flight again.
C17_FailedThreeTimesIsGone ==
  \A i \in Items : retries[i] >= RETRY_ATTEMPTS => Absent(i)

\* C17 amended: the item whose dispatch fails when item.retries has reached
\* RETRY_ATTEMPTS (its failure number RETRY_ATTEMPTS + 1) is dropped: the progress
\* message that follows reports one more permanent failure, the item is never queued,
\* timed or dispatched again, and failedCount rises only in such a step, by one.
C17_RetryCeiling ==
  [][/\ \A i \in Items :
          (DispatchFails(i) /\ retries[i] = RETRY_ATTEMPTS) =>
            /\ sent'[1] = [type |-> "download/progress", downloaded |-> downloadedCount,
                           failed |-> failedCount + 1]
            /\ Absent(i)'
     /\ \A i \in Items : (i <= created /\ Absent(i)) => Absent(i)'
     /\ \A i \in Items : retries'[i] <= RETRY_ATTEMPTS
     /\ failedCount' > failedCount =>
          /\ failedCount' = failedCount + 1
          /\ \E i \in Items : DispatchFails(i) /\ retries[i] = RETRY_ATTEMPTS
    ]_<<vars, background>>

\* C17 witness: an item has just failed for good while another item is still in
\* flight, and the counter shows it.
C17_Witness ==
  /\ failedCount = 1
  /\ sent # <<>>
  /\ sent[1].failed = 1
  /\ \E i \in Items : i <= created /\ Absent(i) /\ retries[i] = RETRY_ATTEMPTS
  /\ activeDownloads > 0

\* C18: an item that waits in the queue is going to be dispatched without a further
\* downloadImages() call: while the queue is not empty some item is in flight, whose
\* completion runs processQueue().
C18_QueuedItemsAreServed == downloadQueue # <<>> => activeDownloads > 0

C20_CompleteOnlyWhenIdle ==
  \A k \in 1..Len(sent) :
    sent[k].type = "download/complete" =>
      /\ downloadQueue = <<>>
      /\ activeDownloads = 0
      /\ retryTimers = {}

\* C21: with batchSize = B > 0 no more than B dispatches succeed before the manager
\* asks the confirmer: batchCounter, the number of successful dispatches since the
\* manager was created or a confirmation was last granted, stays within B.
C21_AtMostBatchSizeBeforeConfirmation ==
  stateSettings.batchSize > 0 => batchCounter <= stateSettings.batchSize

\* A step in which the confirmation that item i waits for is declined.
Declined(i) ==
  /\ itemAt[i] = "confirm"
  /\ \/ pauseResolver = <<i>> /\ BatchResponse(FALSE)
     \/ ConfirmSendFails(i)

\* C22: a declined confirmation puts the pending item back at the head of the queue
\* with activeDownloads decremented, and from then on chrome.downloads.download is
\* called for no item until downloadImages() is called again, whatever else happens.
C22_DeclineHaltsDispatch ==
  [][/\ \A i \in Items :
          Declined(i) =>
            /\ downloadQueue' = <<i>> \o downloadQueue
            /\ activeDownloads' = activeDownloads - 1
     /\ (halted /\ ~\E n \in 0..MaxItems : DownloadImages(n)) =>
          \A i \in Items : itemAt'[i] = "dispatch" => itemAt[i] = "dispatch"
    ]_<<vars, background>>

\* The types that handle() has a branch for.
RequestTypes == SyncTypes \cup AsyncTypes \cup PaginationCommands

\* C23: for every message of a type that the router handles as a request, from a tab
\* or from the UI, sendResponse is never called twice, and it has been called once
\* when the listener and the handler are through with the message.
C23_ExactlyOneResponse ==
  \A r \in Requests :
    requests[r].type \in RequestTypes =>
      /\ Len(requests[r].responses) <= 1
      /\ requests[r].pc = "closed" => Len(requests[r].responses) = 1

TabChannels == {"background->tab", "ui->tab"}

\* C24: a tab-scoped request resolves when the callback brings a response before the
\* timeout (5000 ms from the background, 3000 ms from the UI), rejects with the
\* transport error when the callback reports one, and rejects with the timeout error
\* when the timer fires first; its outcome never changes afterwards, whatever arrives
\* later, and while it is pending its timer is running.
C24_TabRequestSettlesOnce ==
  [][/\ Timeout("background->tab") = 5000
     /\ Timeout("ui->tab") = 3000
     /\ \A k \in Outbound :
          outbound[k].channel \in TabChannels =>
            /\ \A elapsed \in CallbackTimes, lastError \in BOOLEAN :
                 (Callback(k, elapsed, lastError) /\ outbound[k].promise = "pending") =>
                   /\ elapsed < Timeout(outbound[k].channel)
                   /\ outbound'[k].promise = IF lastError THEN "error" ELSE "resolved"
            /\ TimeoutFires(k) =>
                 /\ outbound[k].promise = "pending"
                 /\ outbound'[k].promise = "timeout"
            /\ ( /\ outbound[k].promise # "pending"
                 /\ ~\E ch \in Channels, throws \in BOOLEAN : SendRequest(k, ch, throws) ) =>
                 outbound'[k].promise = outbound[k].promise
     /\ \A k \in Outbound :
          (outbound'[k].channel \in TabChannels /\ outbound'[k].promise = "pending") =>
            outbound'[k].timer = "armed"
    ]_<<vars, background>>

\* C24 witness: a request from the UI to a tab has timed out, and the callback that
\* came afterwards has left the outcome as it was.
C24_Witness ==
  \E k \in Outbound :
    /\ outbound[k].channel = "ui->tab"
    /\ outbound[k].promise = "timeout"
    /\ outbound[k].called

\* C25: every request to another context that is pending has its timeout timer
\* running, so that a peer that never answers cannot leave it pending.
C25_PendingRequestsHaveTimeout ==
  \A k \in Outbound : outbound[k].promise = "pending" => outbound[k].timer = "armed"

\* C26: the fingerprint history never holds an entry twice and never more than
\* lookbackSize entries; addHash and isRecentDuplicate leave it alone for a hash it
\* holds, append a new one and drop the entry inserted earliest when it is full;
\* after lookbackSize + 1 distinct fingerprints the first is not reported any more.
C26_HistoryIsBoundedFifo ==
  [][/\ PairwiseDistinct(hashHistory')
     /\ Len(hashHistory') <= lookbackSize
     /\ \A hash \in Fingerprints :
          (AddHash(hash) \/ IsRecentDuplicate(hash)) =>
            hashHistory' = IF isDuplicate(hashHistory, hash) THEN hashHistory
                           ELSE IF Len(hashHistory) < lookbackSize
                                THEN Append(hashHistory, hash)
                                ELSE Append(Tail(hashHistory), hash)
     /\ ClearHistory => hashHistory' = <<>>
     /\ (PairwiseDistinct(fingerprints') /\ Len(fingerprints') = lookbackSize + 1) =>
          ~isDuplicate(hashHistory', fingerprints'[1])
    ]_<<vars, background>>

\* C26 witness: the first of lookbackSize + 1 distinct fingerprints has come again
\* and has been inserted as a new one.
C26_Witness ==
  /\ Len(fingerprints) = lookbackSize + 2
  /\ PairwiseDistinct(SubSeq(fingerprints, 1, lookbackSize + 1))
  /\ fingerprints[lookbackSize + 2] = fingerprints[1]
  /\ hashHistory[Len(hashHistory)] = fingerprints[1]
  /\ Len(hashHistory) = lookbackSize

\* C27: with a working storage, loadCheckpoint returns the data of the stored record,
\* and leaves the record, exactly when there is one of version 1.0 that is at most
\* 24 h old; otherwise it returns null, and a record of another version or older than
\* 24 h has been removed.
C27_LoadChecksVersionAndAge ==
  [][\A age \in Ages :
       (CheckpointLoad(age) /\ storageUp) =>
         IF storage # <<>> /\ storage[1].version = "1.0" /\ age <= 86400000
         THEN /\ response' = <<[success |-> TRUE, checkpoint |-> <<DataOf(storage[1])>>]>>
              /\ storage' = storage
         ELSE /\ response' = <<[success |-> TRUE, checkpoint |-> <<>>]>>
              /\ storage' = <<>>
    ]_<<vars, background>>

\* C27 witness: a record of the current version has just been dropped for its age.
C27_Witness ==
  /\ log = <<"Checkpoint expired (>24h), clearing">>
  /\ storage = <<>>
  /\ response = <<[success |-> TRUE, checkpoint |-> <<>>]>>

\* C28: the storage holds at most one record; a successful save replaces it by the
\* record of the data given, only save, clear and a load that drops a record change
\* it, a load within the 24 h returns the data of the record it finds, and on an
\* empty slot, as a clear leaves it, load returns null and hasCheckpoint false.
C28_SingleSlot ==
  [][/\ Len(storage') <= 1
     /\ \A data \in CheckpointData :
          (CheckpointSave(data) /\ storageUp) =>
            /\ storage' = <<storeCheckpoint(data)>>
            /\ response' = <<[success |-> TRUE]>>
     /\ \A age \in Ages :
          (CheckpointLoad(age) /\ storageUp /\ ValidCheckpoint(storage) /\ ~Expired(age)) =>
            /\ response'[1].checkpoint = <<DataOf(storage[1])>>
            /\ storage' = storage
     /\ (CheckpointClear /\ storageUp) => storage' = <<>>
     /\ storage = <<>> =>
          /\ \A age \in Ages : CheckpointLoad(age) => response'[1].checkpoint = <<>>
          /\ CheckpointExists => ~response'[1].exists
     /\ storage' # storage =>
          \/ \E data \in CheckpointData : CheckpointSave(data)
          \/ \E age \in Ages : CheckpointLoad(age)
          \/ CheckpointClear
    ]_<<vars, background>>

\* C28 witness: a load has returned the record of a save that replaced the record the
\* storage held at the start.
C28_Witness ==
  /\ storage # <<>>
  /\ storage[1].currentPage = 1
  /\ storage[1].state = "PAUSED"
  /\ response = <<[success |-> TRUE, checkpoint |-> <<DataOf(storage[1])>>]>>

\* C29: a checkpoint write that the storage rejects leaves the record, the state and
\* the page as they were, and the iteration goes on to the page advance and the
\* delay; a start() whose read the storage rejects gets no record and begins at page
\* 1 with no images and the method it was called with.
C29_StorageFailureDoesNotAbort ==
  [][/\ \A t \in Tasks, images \in Extracted, d \in Durations :
          (ExtractDone(t, images, d) /\ ~storageUp /\ shouldCheckpoint(currentPage)) =>
            /\ task'[t].pc = "ckpt"
            /\ storage' = storage
            /\ currentPage' = currentPage
            /\ currentState' = currentState
            /\ isActive' = isActive
            /\ log' = <<>>
     /\ \A t \in Tasks :
          CheckpointDone(t) =>
            /\ task'[t].pc = "delay"
            /\ currentPage' = currentPage + 1
            /\ currentState' = currentState
            /\ isActive' = isActive
     /\ \A m \in Methods :
          (StartCall(m) /\ ~isActive /\ imageExtractor /\ ~storageUp) =>
            \E t \in Tasks : task'[t] = [pc |-> "load", arg |-> m, loaded |-> <<>>]
     /\ \A t \in Tasks :
          (task[t].pc = "load" /\ task[t].loaded = <<>> /\ task'[t].pc # "load") =>
            /\ currentPage' = 1
            /\ collectedImages' = <<>>
            /\ method' = task[t].arg
            /\ log'[1] = "Starting pagination"
    ]_vars

\* C29 witness: the write of the iteration has just been rejected; the run is still
\* active and nothing has been stored.
C29_Witness ==
  /\ ~storageUp
  /\ storage = <<>>
  /\ \E t \in Tasks : task[t].pc = "ckpt"
  /\ isActive
  /\ currentState = "RUNNING"
  /\ currentPage = checkpointInterval

\* C30: getOptimalDelay() of a timer without samples returns defaultDelay; with samples
\* and minDelay <= maxDelay it returns a value from minDelay to maxDelay, which is 1500
\* for samples that are all 1000 under the multiplier 1.5 when 1500 lies within these
\* bounds; recordResponseTime leaves the samples alone for a negative duration, and
\* otherwise keeps the last historySize of the samples with the new one at the end.
C30_OptimalDelayWithinBounds ==
  [][/\ GetOptimalDelay =>
          /\ responseTimes = <<>> => optimalDelay' = <<timer.defaultDelay>>
          /\ (responseTimes # <<>> /\ timer.minDelay <= timer.maxDelay) =>
                /\ optimalDelay'[1] >= timer.minDelay
                /\ optimalDelay'[1] <= timer.maxDelay
          /\ ( /\ responseTimes # <<>>
               /\ \A i \in 1..Len(responseTimes) : responseTimes[i] = 1000
               /\ timer.multiplier = <<3, 2>>
               /\ timer.minDelay <= 1500
               /\ 1500 <= timer.maxDelay ) => optimalDelay' = <<1500>>
     /\ \A duration \in Latencies :
          RecordResponseTime(duration) =>
            LET all == Append(responseTimes, duration)
            IN responseTimes' =
                 IF duration < 0 THEN responseTimes
                 ELSE IF Len(all) <= historySize THEN all
                 ELSE SubSeq(all, Len(all) - historySize + 1, Len(all))
    ]_<<vars, background>>

\* C30 witness: the timer of the engine's options holds historySize samples of 1000
\* and has answered 1500.
C30_Witness ==
  /\ timer.minDelay = ADAPTIVE_TIMING_MIN
  /\ timer.maxDelay = ADAPTIVE_TIMING_MAX
  /\ Len(responseTimes) = historySize
  /\ \A i \in 1..Len(responseTimes) : responseTimes[i] = 1000
  /\ optimalDelay = <<1500>>

\* C31: with one sample or more, getOptimalDelay() is round(mean * multiplier) brought
\* into minDelay..maxDelay, where mean is the exact mean of the samples: the sum times
\* the multiplier's numerator over the count times its denominator, rounded once.
C31_DelayFromExactMean ==
  [][(GetOptimalDelay /\ responseTimes # <<>>) =>
        optimalDelay' =
          << Max(timer.minDelay,
                 Min(timer.maxDelay,
                     Round(Sum(responseTimes) * timer.multiplier[1],
                           Len(responseTimes) * timer.multiplier[2]))) >>
    ]_<<vars, background>>

\* C32: a checkMemory() that reads a ratio at or above the threshold calls the
\* callback when no call was made before or when more than warningCooldown has passed
\* since the last call, and no other checkMemory() calls it, whether the timer or
\* a direct caller runs it; so any two calls are more than warningCooldown apart.
C32_OneWarningPerCooldown ==
  [][/\ \A reading \in MemoryReadings :
          CheckMemory(reading) =>
            LET due == /\ reading = "high"
                       /\ \/ warnings = <<>>
                          \/ now - warnings[Len(warnings)] > warningCooldown
            IN /\ due => warnings' = Append(warnings, now)
               /\ ~due => warnings' = warnings
     /\ \A i \in 1..(Len(warnings') - 1) : warnings'[i + 1] - warnings'[i] > warningCooldown
    ]_<<vars, background>>

\* C32 witness: two warnings were given, the second one by a check made one interval
\* after the cooldown had run out.
C32_Witness ==
  /\ Len(warnings) = 2
  /\ warnings[2] - warnings[1] = warningCooldown + checkInterval
  /\ now > warnings[2]

\* C33: once every start() invocation has returned (its loop was left and stop() has
\* run), the memory monitor's polling timer is cleared, whatever the settings were
\* changed to during the run.
C33_MonitorStoppedAfterRun ==
  (\A t \in Tasks : task[t].pc = "idle") => ~isMonitoring

\* C34: once cancel() has set CANCELLED, the steps already awaited complete, but no
\* start() invocation goes on to call executeMethod().
C34_NoActionAfterCancel ==
  [][\A t \in Tasks :
       (currentState = "CANCELLED" /\ task[t].pc # "exec") => task'[t].pc # "exec"]_vars

\* C35: attempts stays within 0..MAX_ATTEMPTS, and a start() invocation goes on to
\* call executeMethod() only while attempts < MAX_ATTEMPTS and currentPage <= maxPages.
C35_AttemptsWithinCeiling ==
  [][/\ attempts' >= 0
     /\ attempts' <= MAX_ATTEMPTS
     /\ \A t \in Tasks :
          (task[t].pc # "exec" /\ task'[t].pc = "exec") =>
            (attempts < MAX_ATTEMPTS /\ currentPage <= maxPages)
    ]_vars

\* C36: an image batch that was ingested stays in the shared collection until the
\* collection is cleared, and ingesting a batch whose images are all in the collection
\* (as a batch delivered a second time is) answers added = 0 and leaves the collection
\* and its order as they were.
C36_RedeliveryAddsNothing ==
  [][/\ \/ stateImages' = <<>>
        \/ /\ Len(stateImages') >= Len(stateImages)
           /\ SubSeq(stateImages', 1, Len(stateImages)) = stateImages
     /\ (mutations' # <<>> /\ mutations'[1].target = "images" /\ mutations'[1].by # 0) =>
          LET batch == mutations'[1].images
          IN /\ \A i \in 1..Len(batch) : Includes(stateImages', batch[i])
             /\ (\A i \in 1..Len(batch) : Includes(stateImages, batch[i])) =>
                  /\ response'[1].success
                  /\ response'[1].added = 0
                  /\ stateImages' = stateImages
    ]_<<vars, background>>

\* C36 witness: a batch of two images has just been ingested into a collection that
\* held both of them, and nothing was added.
C36_Witness ==
  /\ mutations # <<>>
  /\ mutations[1].target = "images"
  /\ mutations[1].by # 0
  /\ Len(mutations[1].images) = 2
  /\ response[1].added = 0
  /\ response[1].total = Len(stateImages)
  /\ \A i \in 1..2 : Includes(stateImages, mutations[1].images[i])

\* C37: a withLock() call that gives up waiting leaves the lock with the caller that
\* holds it, and no two callers are inside their operations at the same time.
C37_TimeoutLeavesLockAlone ==
  [][/\ \A c \in Callers :
          (call[c].pc = "poll" /\ call'[c].pc = "idle" /\ "images" \in DOMAIN locks) =>
            locks' = locks
     /\ Cardinality({c \in Callers : call'[c].pc = "inOp"}) <= 1
    ]_<<vars, background>>

\* C38: when no confirmation is outstanding (every request for one has been answered),
\* no download item is still waiting at the batch gate.
C38_NoItemLeftAtGate ==
  pauseResolver = <<>> => \A i \in Items : itemAt[i] # "confirm"

\* The states in which a run has ended.
TerminalStates == {"COMPLETE", "CANCELLED", "ERROR"}

C40_InitializeKeepsAddedImages ==
  [][(pendingGet # <<>> /\ pendingGet' = <<>>) =>
        \A i \in 1..Len(stateImages) : Includes(stateImages', stateImages[i])
    ]_<<vars, background>>

TypeOK ==
  /\ isActive \in BOOLEAN
  /\ currentState \in {"IDLE", "RUNNING", "PAUSED", "CANCELLED", "COMPLETE", "ERROR"}
  /\ currentPage \in 1..(maxPages + MaxTasks)
  /\ attempts \in 0..(MAX_ATTEMPTS + MaxTasks)
  /\ method \in Methods
  /\ Len(collectedImages) <= MaxImages
  /\ Len(hashHistory) <= lookbackSize
  /\ Len(responseTimes) <= historySize
  /\ Len(storage) <= 1

====
